---- MODULE Spec2Model ----
(***************************************************************************)
(* Model of the superdevs-quiz HTTP service: the instruction-building      *)
(* handlers (create_token, mint_token, send_solana, send_token) and the    *)
(* message signing / verification handlers.                                *)
(*                                                                         *)
(* Text is a sequence of one-character strings, binary data a sequence of  *)
(* bytes (0..255).  An Option<T> is None, the empty tuple, or Some(v), the *)
(* one-element tuple of v.                                                 *)
(* A u64 is kept as four 16-bit limbs, least significant limb first, so    *)
(* that the whole range up to u64::MAX is representable.                   *)
(***************************************************************************)
EXTENDS Integers, Sequences, FiniteSets, TLC

\* ------------------------------------------------------------------------
\* Generic helpers on sequences
\* ------------------------------------------------------------------------

None == <<>>

Some(v) == <<v>>

Unwrap(option) == option[1]

Reverse(s) == [i \in 1..Len(s) |-> s[Len(s) + 1 - i]]

Repeat(x, n) == [i \in 1..n |-> x]

RECURSIVE CountLeading(_, _, _)
\* number of leading elements of s, from position i on, equal to x
CountLeading(s, i, x) ==
    IF i > Len(s) \/ s[i] # x THEN 0 ELSE 1 + CountLeading(s, i + 1, x)

\* ------------------------------------------------------------------------
\* str::trim().is_empty(): the blank test used by every presence check
\* ------------------------------------------------------------------------

WhiteSpace == {" ", "\t", "\n", "\r"}

RECURSIVE TrimStart(_)
TrimStart(s) ==
    IF s # <<>> /\ Head(s) \in WhiteSpace THEN TrimStart(Tail(s)) ELSE s

trim(s) == Reverse(TrimStart(Reverse(TrimStart(s))))

IsBlank(s) == trim(s) = <<>>

\* ------------------------------------------------------------------------
\* bs58 (Bitcoin alphabet): decode(..).into_vec() and encode(..).into_string()
\* ------------------------------------------------------------------------

B58Alphabet ==
    << "1","2","3","4","5","6","7","8","9",
       "A","B","C","D","E","F","G","H","J","K","L","M","N","P","Q","R","S",
       "T","U","V","W","X","Y","Z",
       "a","b","c","d","e","f","g","h","i","j","k","m","n","o","p","q","r",
       "s","t","u","v","w","x","y","z" >>

B58Radix == Len(B58Alphabet)

IsB58Char(c) == \E i \in 1..B58Radix : B58Alphabet[i] = c

B58Digit(c) == (CHOOSE i \in 1..B58Radix : B58Alphabet[i] = c) - 1

RECURSIVE B58Push(_, _)
\* the trailing loop of both directions:
\*   while val > 0 { push(val % radix); val /= radix }
B58Push(val, radix) ==
    IF val = 0 THEN <<>> ELSE <<val % radix>> \o B58Push(val \div radix, radix)

RECURSIVE B58MulAdd(_, _, _, _)
\* decode's inner loop over out[lo..hi] (little-endian), carrying val in:
\*   val += byte * 58; byte = val & 0xff; val >>= 8
\* The range is walked in two halves, left then right, which is the same
\* left-to-right pass; the left half is evaluated before the right one is
\* entered (the test on left.val), which keeps the nesting depth small.
B58MulAdd(out, lo, hi, val) ==
    IF lo > hi THEN [bytes |-> <<>>, val |-> val]
    ELSE IF lo = hi
    THEN LET v == val + out[lo] * B58Radix
         IN  [bytes |-> <<v % 256>>, val |-> v \div 256]
    ELSE LET mid   == (lo + hi) \div 2
             left  == B58MulAdd(out, lo, mid, val)
             right == B58MulAdd(out, mid + 1, hi, left.val)
         IN  IF left.val >= 0
             THEN [bytes |-> left.bytes \o right.bytes, val |-> right.val]
             ELSE [bytes |-> <<>>, val |-> 0]

B58DecodeStep(out, c) ==
    LET pass == B58MulAdd(out, 1, Len(out), B58Digit(c))
    IN  pass.bytes \o B58Push(pass.val, 256)

RECURSIVE B58DecodeDigits(_, _, _, _)
\* decode's outer loop over the characters s[lo..hi], in order
B58DecodeDigits(s, lo, hi, out) ==
    IF lo > hi THEN out
    ELSE IF lo = hi THEN B58DecodeStep(out, s[lo])
    ELSE LET mid  == (lo + hi) \div 2
             left == B58DecodeDigits(s, lo, mid, out)
         IN  IF Len(left) >= 0
             THEN B58DecodeDigits(s, mid + 1, hi, left)
             ELSE <<>>

\* Result of bs58::decode(s).into_vec(): Err on any character outside the
\* alphabet, otherwise the big-endian bytes, one zero byte per leading '1'.
bs58_decode(s) ==
    IF \E i \in 1..Len(s) : ~IsB58Char(s[i])
    THEN [ok |-> FALSE, bytes |-> <<>>]
    ELSE [ok |-> TRUE,
          bytes |-> Reverse(B58DecodeDigits(s, 1, Len(s), <<>>)
                            \o Repeat(0, CountLeading(s, 1, "1")))]

RECURSIVE B58DivMod(_, _, _, _)
\* encode's inner loop over digits[lo..hi] (little-endian), carrying in:
\*   carry += digit << 8; digit = carry % 58; carry /= 58
B58DivMod(digits, lo, hi, carry) ==
    IF lo > hi THEN [digits |-> <<>>, carry |-> carry]
    ELSE IF lo = hi
    THEN LET c == carry + digits[lo] * 256
         IN  [digits |-> <<c % B58Radix>>, carry |-> c \div B58Radix]
    ELSE LET mid   == (lo + hi) \div 2
             left  == B58DivMod(digits, lo, mid, carry)
             right == B58DivMod(digits, mid + 1, hi, left.carry)
         IN  IF left.carry >= 0
             THEN [digits |-> left.digits \o right.digits,
                   carry |-> right.carry]
             ELSE [digits |-> <<>>, carry |-> 0]

B58EncodeStep(digits, byte) ==
    LET pass == B58DivMod(digits, 1, Len(digits), byte)
    IN  pass.digits \o B58Push(pass.carry, B58Radix)

RECURSIVE B58EncodeBytes(_, _, _, _)
\* encode's outer loop over the bytes bytes[lo..hi], in order
B58EncodeBytes(bytes, lo, hi, digits) ==
    IF lo > hi THEN digits
    ELSE IF lo = hi THEN B58EncodeStep(digits, bytes[lo])
    ELSE LET mid  == (lo + hi) \div 2
             left == B58EncodeBytes(bytes, lo, mid, digits)
         IN  IF Len(left) >= 0
             THEN B58EncodeBytes(bytes, mid + 1, hi, left)
             ELSE <<>>

\* mutant of bs58_encode: the leading zero bytes get no digit
bs58_encode_without_leading_zeros(bytes) ==
    LET digits == B58EncodeBytes(bytes, 1, Len(bytes), <<>>)
    IN  Reverse([i \in 1..Len(digits) |-> B58Alphabet[digits[i] + 1]])

bs58_encode(bytes) ==
    LET digits == B58EncodeBytes(bytes, 1, Len(bytes), <<>>)
                  \o Repeat(0, CountLeading(bytes, 1, 0))
    IN  Reverse([i \in 1..Len(digits) |-> B58Alphabet[digits[i] + 1]])

\* ------------------------------------------------------------------------
\* base64::engine::general_purpose::STANDARD (padded, canonical)
\* ------------------------------------------------------------------------

B64Alphabet ==
    << "A","B","C","D","E","F","G","H","I","J","K","L","M","N","O","P","Q",
       "R","S","T","U","V","W","X","Y","Z",
       "a","b","c","d","e","f","g","h","i","j","k","l","m","n","o","p","q",
       "r","s","t","u","v","w","x","y","z",
       "0","1","2","3","4","5","6","7","8","9","+","/" >>

B64Pad == "="

IsB64Char(c) == \E i \in 1..Len(B64Alphabet) : B64Alphabet[i] = c

B64Digit(c) == (CHOOSE i \in 1..Len(B64Alphabet) : B64Alphabet[i] = c) - 1

\* the 4 characters of one group of 1, 2 or 3 input bytes
B64Group(g) ==
    LET n  == Len(g)
        b1 == g[1]
        b2 == IF n >= 2 THEN g[2] ELSE 0
        b3 == IF n >= 3 THEN g[3] ELSE 0
    IN  << B64Alphabet[(b1 \div 4) + 1],
           B64Alphabet[((b1 % 4) * 16 + (b2 \div 16)) + 1],
           IF n >= 2 THEN B64Alphabet[((b2 % 16) * 4 + (b3 \div 64)) + 1]
                     ELSE B64Pad,
           IF n >= 3 THEN B64Alphabet[(b3 % 64) + 1] ELSE B64Pad >>

RECURSIVE base64_encode(_)
base64_encode(bytes) ==
    IF bytes = <<>> THEN <<>>
    ELSE IF Len(bytes) <= 3 THEN B64Group(bytes)
    ELSE B64Group(SubSeq(bytes, 1, 3))
         \o base64_encode(SubSeq(bytes, 4, Len(bytes)))

\* one group of 4 characters, npad of them padding at the end
B64Ungroup(q, npad) ==
    LET d1 == B64Digit(q[1])
        d2 == B64Digit(q[2])
        d3 == IF npad >= 2 THEN 0 ELSE B64Digit(q[3])
        d4 == IF npad >= 1 THEN 0 ELSE B64Digit(q[4])
        all == << d1 * 4 + (d2 \div 16),
                  (d2 % 16) * 16 + (d3 \div 4),
                  (d3 % 4) * 64 + d4 >>
    IN  SubSeq(all, 1, 3 - npad)

\* the bits of the last data character that reach no output byte are zero
B64TrailingBitsZero(q, npad) ==
    CASE npad = 2 -> B64Digit(q[2]) % 16 = 0
      [] npad = 1 -> B64Digit(q[3]) % 4 = 0
      [] OTHER    -> TRUE

RECURSIVE B64DecodeGroups(_)
B64DecodeGroups(s) ==
    IF s = <<>> THEN <<>>
    ELSE LET q    == SubSeq(s, 1, 4)
             npad == IF Len(s) > 4 THEN 0
                     ELSE IF q[3] = B64Pad THEN 2
                     ELSE IF q[4] = B64Pad THEN 1 ELSE 0
         IN  B64Ungroup(q, npad) \o B64DecodeGroups(SubSeq(s, 5, Len(s)))

\* Result of STANDARD.decode(s): the length is a multiple of 4, padding is
\* one or two '=' at the very end only, every other character is in the
\* alphabet and the unused trailing bits are zero.
base64_decode(s) ==
    LET n    == Len(s)
        npad == IF n = 0 THEN 0
                ELSE IF n >= 2 /\ s[n] = B64Pad /\ s[n - 1] = B64Pad THEN 2
                ELSE IF s[n] = B64Pad THEN 1 ELSE 0
        wellFormed ==
            /\ n % 4 = 0
            /\ \A i \in 1..(n - npad) : IsB64Char(s[i])
            /\ B64TrailingBitsZero(SubSeq(s, n - 3, n), npad)
    IN  IF wellFormed
        THEN [ok |-> TRUE, bytes |-> B64DecodeGroups(s)]
        ELSE [ok |-> FALSE, bytes |-> <<>>]

\* ------------------------------------------------------------------------
\* str::as_bytes(): the UTF-8 bytes of a text (ASCII range)
\* ------------------------------------------------------------------------

AsciiDigits == <<"0","1","2","3","4","5","6","7","8","9">>

AsciiUpper ==
    << "A","B","C","D","E","F","G","H","I","J","K","L","M","N","O","P","Q",
       "R","S","T","U","V","W","X","Y","Z" >>

AsciiLower ==
    << "a","b","c","d","e","f","g","h","i","j","k","l","m","n","o","p","q",
       "r","s","t","u","v","w","x","y","z" >>

IndexOf(c, table) == CHOOSE i \in 1..Len(table) : table[i] = c

\* the code point of an ASCII letter, digit, blank, '!' or '-'
AsciiCode(c) ==
    CASE c = "\t" -> 9
      [] c = "\n" -> 10
      [] c = "\r" -> 13
      [] c = " "  -> 32
      [] c = "!"  -> 33
      [] c = "-"  -> 45
      [] \E i \in 1..Len(AsciiDigits) : AsciiDigits[i] = c ->
            47 + IndexOf(c, AsciiDigits)
      [] \E i \in 1..Len(AsciiUpper) : AsciiUpper[i] = c ->
            64 + IndexOf(c, AsciiUpper)
      [] \E i \in 1..Len(AsciiLower) : AsciiLower[i] = c ->
            96 + IndexOf(c, AsciiLower)

as_bytes(text) == [i \in 1..Len(text) |-> AsciiCode(text[i])]

\* ------------------------------------------------------------------------
\* u64 values: four 16-bit limbs, least significant first
\* ------------------------------------------------------------------------

U64Zero == <<0, 0, 0, 0>>

\* mutant of to_le_bytes: the amount is narrowed to 32 bits first
to_le_bytes_of_low_half(amount) ==
    << amount[1] % 256, amount[1] \div 256,
       amount[2] % 256, amount[2] \div 256,
       0, 0, 0, 0 >>

\* u64::to_le_bytes()
to_le_bytes(amount) ==
    << amount[1] % 256, amount[1] \div 256,
       amount[2] % 256, amount[2] \div 256,
       amount[3] % 256, amount[3] \div 256,
       amount[4] % 256, amount[4] \div 256 >>

\* ------------------------------------------------------------------------
\* solana_sdk::pubkey::Pubkey and solana_sdk::signature::Signature
\* ------------------------------------------------------------------------

PUBKEY_BYTES == 32

SIGNATURE_BYTES == 64

MAX_BASE58_LEN == 44

\* Pubkey::try_from(&[u8]): exactly PUBKEY_BYTES bytes
Pubkey_try_from(bytes) ==
    IF Len(bytes) = PUBKEY_BYTES
    THEN [ok |-> TRUE, key |-> bytes]
    ELSE [ok |-> FALSE, key |-> <<>>]

\* Signature::try_from(&[u8]): exactly SIGNATURE_BYTES bytes
Signature_try_from(bytes) ==
    IF Len(bytes) = SIGNATURE_BYTES
    THEN [ok |-> TRUE, sig |-> bytes]
    ELSE [ok |-> FALSE, sig |-> <<>>]

\* str::parse::<Pubkey>() (Pubkey::from_str): one error for every failure
\* as far as create_token can tell
Pubkey_from_str(s) ==
    IF Len(s) > MAX_BASE58_LEN THEN [ok |-> FALSE, key |-> <<>>]
    ELSE LET decoded == bs58_decode(s)
         IN  IF ~decoded.ok THEN [ok |-> FALSE, key |-> <<>>]
             ELSE Pubkey_try_from(decoded.bytes)

\* The nested match every builder handler and parse_wallet_address apply to
\* an address text:  bs58::decode(s).into_vec() then Pubkey::try_from(bytes).
\*   "format"  bs58 rejected the text
\*   "length"  the text decoded, but not to a public key
\*   "ok"      key is the public key
decode_pubkey(s) ==
    LET decoded == bs58_decode(s)
    IN  IF ~decoded.ok THEN [kind |-> "format", key |-> <<>>]
        ELSE LET parsed == Pubkey_try_from(decoded.bytes)
             IN  IF ~parsed.ok THEN [kind |-> "length", key |-> <<>>]
                 ELSE [kind |-> "ok", key |-> parsed.key]

\* ------------------------------------------------------------------------
\* Ed25519, extensionally on the key and message pools of this model.  The
\* values are those of RFC 8032; a signature verifies (verify_strict) exactly
\* when it is the signature of that message under the secret key of that
\* public key.
\* ------------------------------------------------------------------------

\* secret seed -> public key (RFC 8032 key generation), on the seed pool

Ed25519KeyTable ==
    { [secret |-> <<
            1,1,1,1,1,1,1,1,1,1,1,1,1,1,1,1,1,1,1,1,1,1,1,1,1,1,1,1,1,1,1,1 >>,
       public |-> <<
            138,136,227,221,116,9,241,149,253,82,219,45,60,186,93,114,202,
            103,9,191,29,148,18,27,243,116,136,1,180,15,111,92 >>],
      [secret |-> <<
            2,2,2,2,2,2,2,2,2,2,2,2,2,2,2,2,2,2,2,2,2,2,2,2,2,2,2,2,2,2,2,2 >>,
       public |-> <<
            129,57,119,14,168,125,23,95,86,163,84,102,195,76,126,204,203,
            141,138,145,180,238,55,162,93,246,15,91,143,201,179,148 >>],
      [secret |-> <<
            3,3,3,3,3,3,3,3,3,3,3,3,3,3,3,3,3,3,3,3,3,3,3,3,3,3,3,3,3,3,3,3 >>,
       public |-> <<
            237,73,40,198,40,209,194,198,234,233,3,56,144,89,149,97,41,89,
            39,58,92,99,249,54,54,193,70,20,172,135,55,209 >>] }

\* (secret, public half of the keypair, message) -> signature

Ed25519SignTable ==
    { [secret |-> <<
            1,1,1,1,1,1,1,1,1,1,1,1,1,1,1,1,1,1,1,1,1,1,1,1,1,1,1,1,1,1,1,1 >>,
       public |-> <<
            138,136,227,221,116,9,241,149,253,82,219,45,60,186,93,114,202,
            103,9,191,29,148,18,27,243,116,136,1,180,15,111,92 >>,
       msg |-> <<
            104,101,108,108,111 >>,
       sig |-> <<
            225,67,12,110,189,13,83,87,59,92,128,52,82,23,79,137,145,239,89,
            85,224,144,106,9,232,253,199,49,4,89,233,200,42,64,37,38,116,
            140,52,49,254,127,14,95,170,251,247,231,3,35,71,137,115,64,99,
            238,66,190,23,175,22,67,141,8 >>],
      [secret |-> <<
            1,1,1,1,1,1,1,1,1,1,1,1,1,1,1,1,1,1,1,1,1,1,1,1,1,1,1,1,1,1,1,1 >>,
       public |-> <<
            138,136,227,221,116,9,241,149,253,82,219,45,60,186,93,114,202,
            103,9,191,29,148,18,27,243,116,136,1,180,15,111,92 >>,
       msg |-> <<
            32,104,101,108,108,111,32 >>,
       sig |-> <<
            95,74,193,41,126,16,86,249,31,155,217,177,190,244,92,207,101,
            127,45,87,162,139,49,84,93,80,135,51,121,216,242,187,133,161,
            175,106,57,163,141,165,146,105,136,248,201,166,34,111,204,169,
            132,146,56,88,148,162,190,207,182,235,44,0,32,3 >>],
      [secret |-> <<
            1,1,1,1,1,1,1,1,1,1,1,1,1,1,1,1,1,1,1,1,1,1,1,1,1,1,1,1,1,1,1,1 >>,
       public |-> <<
            138,136,227,221,116,9,241,149,253,82,219,45,60,186,93,114,202,
            103,9,191,29,148,18,27,243,116,136,1,180,15,111,92 >>,
       msg |-> <<
            104,101,108,108,112 >>,
       sig |-> <<
            29,98,174,116,0,207,96,170,77,230,67,2,210,225,166,107,252,35,
            148,113,145,165,242,57,186,39,155,55,180,24,155,128,204,113,202,
            223,211,253,169,148,6,203,5,133,205,113,73,141,113,191,199,140,
            133,86,219,92,229,240,13,179,38,115,162,11 >>],
      [secret |-> <<
            2,2,2,2,2,2,2,2,2,2,2,2,2,2,2,2,2,2,2,2,2,2,2,2,2,2,2,2,2,2,2,2 >>,
       public |-> <<
            129,57,119,14,168,125,23,95,86,163,84,102,195,76,126,204,203,
            141,138,145,180,238,55,162,93,246,15,91,143,201,179,148 >>,
       msg |-> <<
            104,101,108,108,111 >>,
       sig |-> <<
            109,137,23,193,242,91,0,33,41,224,188,57,14,193,143,88,202,133,
            154,47,132,69,157,239,243,21,29,91,177,29,254,197,128,111,124,
            50,31,218,119,97,26,89,190,164,196,245,109,141,136,19,41,14,133,
            250,235,75,218,5,41,60,52,55,109,14 >>],
      [secret |-> <<
            2,2,2,2,2,2,2,2,2,2,2,2,2,2,2,2,2,2,2,2,2,2,2,2,2,2,2,2,2,2,2,2 >>,
       public |-> <<
            129,57,119,14,168,125,23,95,86,163,84,102,195,76,126,204,203,
            141,138,145,180,238,55,162,93,246,15,91,143,201,179,148 >>,
       msg |-> <<
            32,104,101,108,108,111,32 >>,
       sig |-> <<
            70,212,158,122,241,182,166,44,129,255,249,235,84,59,119,154,26,
            182,125,104,60,22,75,107,65,127,87,5,255,134,83,235,147,170,37,
            67,65,22,15,169,154,232,130,63,51,190,215,49,236,110,179,211,58,
            179,92,209,132,29,16,168,59,57,112,13 >>],
      [secret |-> <<
            2,2,2,2,2,2,2,2,2,2,2,2,2,2,2,2,2,2,2,2,2,2,2,2,2,2,2,2,2,2,2,2 >>,
       public |-> <<
            129,57,119,14,168,125,23,95,86,163,84,102,195,76,126,204,203,
            141,138,145,180,238,55,162,93,246,15,91,143,201,179,148 >>,
       msg |-> <<
            104,101,108,108,112 >>,
       sig |-> <<
            74,170,226,158,119,110,130,56,118,42,82,57,77,95,93,26,16,73,35,
            80,49,241,124,197,240,229,17,116,54,21,216,4,94,216,177,214,30,
            114,125,92,152,108,67,114,95,111,19,15,123,23,208,81,161,244,
            130,146,167,31,121,107,146,12,171,10 >>],
      [secret |-> <<
            3,3,3,3,3,3,3,3,3,3,3,3,3,3,3,3,3,3,3,3,3,3,3,3,3,3,3,3,3,3,3,3 >>,
       public |-> <<
            237,73,40,198,40,209,194,198,234,233,3,56,144,89,149,97,41,89,
            39,58,92,99,249,54,54,193,70,20,172,135,55,209 >>,
       msg |-> <<
            104,101,108,108,111 >>,
       sig |-> <<
            90,159,42,200,174,203,212,53,108,34,159,40,128,205,135,85,144,
            158,75,163,207,52,26,31,234,70,58,62,237,243,6,223,146,55,77,33,
            65,213,222,167,2,187,44,60,147,84,83,30,227,119,106,192,216,241,
            102,200,51,254,167,216,240,17,76,6 >>],
      [secret |-> <<
            3,3,3,3,3,3,3,3,3,3,3,3,3,3,3,3,3,3,3,3,3,3,3,3,3,3,3,3,3,3,3,3 >>,
       public |-> <<
            237,73,40,198,40,209,194,198,234,233,3,56,144,89,149,97,41,89,
            39,58,92,99,249,54,54,193,70,20,172,135,55,209 >>,
       msg |-> <<
            32,104,101,108,108,111,32 >>,
       sig |-> <<
            30,7,17,108,202,44,29,138,25,158,167,43,192,101,101,190,117,126,
            232,54,104,99,148,64,104,65,212,153,158,237,85,170,223,7,65,218,
            192,217,57,141,70,196,73,178,15,212,93,24,218,35,209,43,183,27,
            167,22,141,246,198,19,225,19,42,3 >>],
      [secret |-> <<
            3,3,3,3,3,3,3,3,3,3,3,3,3,3,3,3,3,3,3,3,3,3,3,3,3,3,3,3,3,3,3,3 >>,
       public |-> <<
            237,73,40,198,40,209,194,198,234,233,3,56,144,89,149,97,41,89,
            39,58,92,99,249,54,54,193,70,20,172,135,55,209 >>,
       msg |-> <<
            104,101,108,108,112 >>,
       sig |-> <<
            15,106,62,58,60,65,187,136,175,243,114,47,70,211,152,208,160,
            119,120,3,8,170,123,80,184,36,151,205,44,60,44,120,231,147,131,
            242,65,222,63,41,22,90,174,225,8,250,54,164,69,78,65,238,210,
            206,163,110,226,243,112,248,160,30,203,13 >>],
      [secret |-> <<
            1,1,1,1,1,1,1,1,1,1,1,1,1,1,1,1,1,1,1,1,1,1,1,1,1,1,1,1,1,1,1,1 >>,
       public |-> <<
            129,57,119,14,168,125,23,95,86,163,84,102,195,76,126,204,203,
            141,138,145,180,238,55,162,93,246,15,91,143,201,179,148 >>,
       msg |-> <<
            104,101,108,108,111 >>,
       sig |-> <<
            225,67,12,110,189,13,83,87,59,92,128,52,82,23,79,137,145,239,89,
            85,224,144,106,9,232,253,199,49,4,89,233,200,20,6,30,189,250,60,
            208,218,194,210,57,169,70,155,231,50,227,158,46,33,209,97,93,34,
            48,255,0,201,11,8,133,15 >>],
      [secret |-> <<
            1,1,1,1,1,1,1,1,1,1,1,1,1,1,1,1,1,1,1,1,1,1,1,1,1,1,1,1,1,1,1,1 >>,
       public |-> <<
            129,57,119,14,168,125,23,95,86,163,84,102,195,76,126,204,203,
            141,138,145,180,238,55,162,93,246,15,91,143,201,179,148 >>,
       msg |-> <<
            32,104,101,108,108,111,32 >>,
       sig |-> <<
            95,74,193,41,126,16,86,249,31,155,217,177,190,244,92,207,101,
            127,45,87,162,139,49,84,93,80,135,51,121,216,242,187,62,163,57,
            56,11,26,77,115,3,94,208,78,106,113,148,187,205,92,56,174,212,
            12,171,211,87,190,3,93,0,24,189,7 >>],
      [secret |-> <<
            1,1,1,1,1,1,1,1,1,1,1,1,1,1,1,1,1,1,1,1,1,1,1,1,1,1,1,1,1,1,1,1 >>,
       public |-> <<
            129,57,119,14,168,125,23,95,86,163,84,102,195,76,126,204,203,
            141,138,145,180,238,55,162,93,246,15,91,143,201,179,148 >>,
       msg |-> <<
            104,101,108,108,112 >>,
       sig |-> <<
            29,98,174,116,0,207,96,170,77,230,67,2,210,225,166,107,252,35,
            148,113,145,165,242,57,186,39,155,55,180,24,155,128,22,9,60,92,
            35,4,148,197,42,169,77,89,220,249,165,237,205,69,35,92,154,96,
            199,43,209,135,183,77,173,63,254,5 >>] }

\* PublicKey::from(&SecretKey)
ed25519_public(secret) ==
    (CHOOSE r \in Ed25519KeyTable : r.secret = secret).public

\* Keypair::sign_message(msg): the expanded secret key signs, the public
\* half of the keypair enters the challenge hash
ed25519_sign(keypair, msg) ==
    (CHOOSE r \in Ed25519SignTable :
        /\ r.secret = keypair.secret
        /\ r.public = keypair.public
        /\ r.msg = msg).sig

\* Signature::verify(pubkey_bytes, message_bytes): false, never an error,
\* for anything that is not a valid signature of the message under the key
ed25519_verify(sig, pubkey, msg) ==
    \E r \in Ed25519SignTable :
        /\ r.sig = sig
        /\ r.public = pubkey
        /\ r.msg = msg
        /\ ed25519_public(r.secret) = r.public

SECRET_KEY_LENGTH == 32

KEYPAIR_LENGTH == 64

\* mutant of Keypair_try_from: the public half is taken as it comes
Keypair_try_from_unchecked(bytes) ==
    IF Len(bytes) < KEYPAIR_LENGTH THEN [ok |-> FALSE]
    ELSE LET secret == SubSeq(bytes, 1, SECRET_KEY_LENGTH)
             public == SubSeq(bytes, SECRET_KEY_LENGTH + 1, Len(bytes))
         IN  IF Len(public) # PUBKEY_BYTES THEN [ok |-> FALSE]
             ELSE [ok |-> TRUE, secret |-> secret, public |-> public]

\* Keypair::try_from(&[u8]): at least KEYPAIR_LENGTH bytes, the secret half
\* bytes[..32] and the public half bytes[32..], which must be a public key
\* and the one derived from the secret half
Keypair_try_from(bytes) ==
    IF Len(bytes) < KEYPAIR_LENGTH THEN [ok |-> FALSE]
    ELSE LET secret == SubSeq(bytes, 1, SECRET_KEY_LENGTH)
             public == SubSeq(bytes, SECRET_KEY_LENGTH + 1, Len(bytes))
         IN  IF Len(public) # PUBKEY_BYTES THEN [ok |-> FALSE]
             ELSE IF public # ed25519_public(secret) THEN [ok |-> FALSE]
             ELSE [ok |-> TRUE, secret |-> secret, public |-> public]

\* ------------------------------------------------------------------------
\* Program ids and the instruction builders of spl_token and solana_sdk
\* ------------------------------------------------------------------------

\* spl_token::ID
spl_token_ID ==
    bs58_decode(<< "T","o","k","e","n","k","e","g","Q","f","e","Z","y","i",
                   "N","w","A","J","b","N","b","G","K","P","F","X","C","W",
                   "u","B","v","f","9","S","s","6","2","3","V","Q","5","D",
                   "A" >>).bytes

\* solana_sdk::sysvar::rent::id()
sysvar_rent_ID ==
    bs58_decode(<< "S","y","s","v","a","r","R","e","n","t","1","1","1","1",
                   "1","1","1","1","1","1","1","1","1","1","1","1","1","1",
                   "1","1","1","1","1","1","1","1","1","1","1","1","1","1",
                   "1" >>).bytes

\* solana_sdk::system_program::ID
system_program_ID == Repeat(0, PUBKEY_BYTES)

\* AccountMeta::new(pubkey, is_signer) and AccountMeta::new_readonly(..)
AccountMeta_new(pubkey, is_signer) ==
    [pubkey |-> pubkey, is_signer |-> is_signer, is_writable |-> TRUE]

AccountMeta_new_readonly(pubkey, is_signer) ==
    [pubkey |-> pubkey, is_signer |-> is_signer, is_writable |-> FALSE]

TAG_INITIALIZE_MINT == 0

TAG_TRANSFER == 3

TAG_MINT_TO == 7

\* the bincode u32 variant index of SystemInstruction::Transfer
SYSTEM_TRANSFER_INDEX == 2

\* mutant of initialize_mint: the freeze authority is left out
initialize_mint_without_freeze(token_program_id, mint, mint_authority, freeze_authority, decimals) ==
    IF token_program_id # spl_token_ID THEN [ok |-> FALSE]
    ELSE [ok |-> TRUE,
          program_id |-> token_program_id,
          accounts |-> << AccountMeta_new(mint, FALSE),
                          AccountMeta_new_readonly(sysvar_rent_ID, FALSE) >>,
          data |-> <<TAG_INITIALIZE_MINT, decimals>> \o mint_authority
                   \o <<0>>]

\* spl_token::instruction::initialize_mint; freeze_authority is None or a key
initialize_mint(token_program_id, mint, mint_authority, freeze_authority, decimals) ==
    IF token_program_id # spl_token_ID THEN [ok |-> FALSE]
    ELSE [ok |-> TRUE,
          program_id |-> token_program_id,
          accounts |-> << AccountMeta_new(mint, FALSE),
                          AccountMeta_new_readonly(sysvar_rent_ID, FALSE) >>,
          data |-> <<TAG_INITIALIZE_MINT, decimals>> \o mint_authority
                   \o (IF freeze_authority = None THEN <<0>>
                       ELSE <<1>> \o Unwrap(freeze_authority))]

\* mutant of mint_to: the authority is not marked as signer
mint_to_unsigned(token_program_id, mint, account, owner, signers, amount) ==
    IF token_program_id # spl_token_ID THEN [ok |-> FALSE]
    ELSE [ok |-> TRUE,
          program_id |-> token_program_id,
          accounts |-> << AccountMeta_new(mint, FALSE),
                          AccountMeta_new(account, FALSE),
                          AccountMeta_new_readonly(owner, FALSE) >>,
          data |-> <<TAG_MINT_TO>> \o to_le_bytes(amount)]

\* spl_token::instruction::mint_to
mint_to(token_program_id, mint, account, owner, signers, amount) ==
    IF token_program_id # spl_token_ID THEN [ok |-> FALSE]
    ELSE [ok |-> TRUE,
          program_id |-> token_program_id,
          accounts |-> << AccountMeta_new(mint, FALSE),
                          AccountMeta_new(account, FALSE),
                          AccountMeta_new_readonly(owner, signers = <<>>) >>
                       \o [i \in 1..Len(signers) |->
                              AccountMeta_new_readonly(signers[i], TRUE)],
          data |-> <<TAG_MINT_TO>> \o to_le_bytes(amount)]

\* mutant of token_transfer: destination and source change places
token_transfer_destination_first(token_program_id, source, destination, authority, signers, amount) ==
    IF token_program_id # spl_token_ID THEN [ok |-> FALSE]
    ELSE [ok |-> TRUE,
          program_id |-> token_program_id,
          accounts |-> << AccountMeta_new(destination, FALSE),
                          AccountMeta_new(source, FALSE),
                          AccountMeta_new_readonly(authority, signers = <<>>) >>,
          data |-> <<TAG_TRANSFER>> \o to_le_bytes(amount)]

\* spl_token::instruction::transfer
token_transfer(token_program_id, source, destination, authority, signers, amount) ==
    IF token_program_id # spl_token_ID THEN [ok |-> FALSE]
    ELSE [ok |-> TRUE,
          program_id |-> token_program_id,
          accounts |-> << AccountMeta_new(source, FALSE),
                          AccountMeta_new(destination, FALSE),
                          AccountMeta_new_readonly(authority, signers = <<>>) >>
                       \o [i \in 1..Len(signers) |->
                              AccountMeta_new_readonly(signers[i], TRUE)],
          data |-> <<TAG_TRANSFER>> \o to_le_bytes(amount)]

\* mutant of system_transfer: the recipient is listed first
system_transfer_recipient_first(from_pubkey, to_pubkey, lamports) ==
    [ok |-> TRUE,
     program_id |-> system_program_ID,
     accounts |-> << AccountMeta_new(to_pubkey, FALSE),
                     AccountMeta_new(from_pubkey, TRUE) >>,
     data |-> <<SYSTEM_TRANSFER_INDEX, 0, 0, 0>> \o to_le_bytes(lamports)]

\* solana_sdk::system_instruction::transfer (data is bincode: u32 variant
\* index, little-endian, then the u64 lamports)
system_transfer(from_pubkey, to_pubkey, lamports) ==
    [ok |-> TRUE,
     program_id |-> system_program_ID,
     accounts |-> << AccountMeta_new(from_pubkey, TRUE),
                     AccountMeta_new(to_pubkey, FALSE) >>,
     data |-> <<SYSTEM_TRANSFER_INDEX, 0, 0, 0>> \o to_le_bytes(lamports)]

\* ------------------------------------------------------------------------
\* Responses.  A handler yields the HTTP status, the JSON body and the
\* library calls it made on the way, in order.
\* ------------------------------------------------------------------------

BAD_REQUEST == 400

OK == 200

\* Err((StatusCode::BAD_REQUEST, Json({"success": false, "error": msg})))
\* mutant of Reject: the status of the tuple is lost, the body is answered
\* with the default status
Reject_with_default_status(msg, calls) ==
    [status |-> OK,
     body   |-> [success |-> FALSE, error |-> msg],
     calls  |-> calls]

Reject(msg, calls) ==
    [status |-> BAD_REQUEST,
     body   |-> [success |-> FALSE, error |-> msg],
     calls  |-> calls]

\* the AccountMeta list and the success body of the four builder handlers
InstructionResponse(program_id, instruction, calls) ==
    [status |-> OK,
     body   |-> [success |-> TRUE,
                 data |-> [program_id |-> bs58_encode(program_id),
                           accounts |->
                               [i \in 1..Len(instruction.accounts) |->
                                   [pubkey |-> bs58_encode(
                                                 instruction.accounts[i].pubkey),
                                    is_signer |->
                                        instruction.accounts[i].is_signer,
                                    is_writable |->
                                        instruction.accounts[i].is_writable]],
                           instruction_data |->
                               base64_encode(instruction.data)]],
     calls  |-> calls]

\* match on an Option<String> field:
\*   None => missing;  Some(s) if s.trim().is_empty() => empty;  Some(s) => ok
\* mutant of validate_present: the guard on the trimmed text is missing, a
\* blank text goes on to the decoding
validate_present_without_blank_arm(field) ==
    IF field = None THEN "missing" ELSE "ok"

validate_present(field) ==
    IF field = None THEN "missing"
    ELSE IF IsBlank(Unwrap(field)) THEN "empty"
    ELSE "ok"

\* mutant of validate_amount: the Some(0) arm is missing
validate_amount_without_zero_arm(amount) ==
    IF amount = None THEN "missing" ELSE "ok"

\* match on the Option<u64> amount:  None;  Some(0);  Some(amt)
validate_amount(amount) ==
    IF amount = None THEN "missing"
    ELSE IF Unwrap(amount) = U64Zero THEN "zero"
    ELSE "ok"

\* the calls of one address decode, by its outcome
DecodeCalls(decoded) ==
    IF decoded.kind = "format" THEN <<"bs58::decode">>
    ELSE <<"bs58::decode", "Pubkey::try_from">>

\* ------------------------------------------------------------------------
\* POST /token/create
\* ------------------------------------------------------------------------

create_token(payload) ==
    IF payload.mint_authority = None
    THEN Reject("Missing required field: mint_authority", <<>>)
    ELSE LET mint_authority == Pubkey_from_str(Unwrap(payload.mint_authority))
             c1 == <<"Pubkey::from_str">>
    IN  IF ~mint_authority.ok
        THEN Reject("Invalid mint authority public key", c1)
    ELSE IF payload.mint = None
        THEN Reject("Missing required field: mint", c1)
    ELSE LET mint == Pubkey_from_str(Unwrap(payload.mint))
             c2 == c1 \o <<"Pubkey::from_str">>
    IN  IF ~mint.ok
        THEN Reject("Invalid mint public key", c2)
    ELSE IF payload.decimals = None
        THEN Reject("Missing required field: decimals", c2)
    ELSE LET instruction ==
                 initialize_mint(spl_token_ID, mint.key, mint_authority.key,
                                 Some(mint_authority.key), Unwrap(payload.decimals))
             c3 == c2 \o <<"instruction::initialize_mint">>
    IN  IF ~instruction.ok
        THEN Reject("Failed to create initialize mint instruction", c3)
        ELSE InstructionResponse(spl_token_ID, instruction, c3)

\* ------------------------------------------------------------------------
\* POST /token/mint
\* ------------------------------------------------------------------------

mint_token(payload) ==
    LET has_mint        == validate_present(payload.mint)
        has_destination == validate_present(payload.destination)
        has_authority   == validate_present(payload.authority)
        has_amount      == validate_amount(payload.amount)
    IN  IF has_mint = "missing"
        THEN Reject("Missing required field: mint", <<>>)
    ELSE IF has_mint = "empty"
        THEN Reject("Mint address cannot be empty", <<>>)
    ELSE IF has_destination = "missing"
        THEN Reject("Missing required field: destination", <<>>)
    ELSE IF has_destination = "empty"
        THEN Reject("Destination address cannot be empty", <<>>)
    ELSE IF has_authority = "missing"
        THEN Reject("Missing required field: authority", <<>>)
    ELSE IF has_authority = "empty"
        THEN Reject("Authority address cannot be empty", <<>>)
    ELSE IF has_amount = "missing"
        THEN Reject("Missing required field: amount", <<>>)
    ELSE IF has_amount = "zero"
        THEN Reject("Amount must be greater than 0", <<>>)
    ELSE LET mint == decode_pubkey(Unwrap(payload.mint))
             c1   == DecodeCalls(mint)
    IN  IF mint.kind = "format"
        THEN Reject("Invalid mint public key format", c1)
    ELSE IF mint.kind = "length"
        THEN Reject("Invalid mint public key", c1)
    ELSE LET destination == decode_pubkey(Unwrap(payload.destination))
             c2 == c1 \o DecodeCalls(destination)
    IN  IF destination.kind = "format"
        THEN Reject("Invalid destination public key format", c2)
    ELSE IF destination.kind = "length"
        THEN Reject("Invalid destination public key", c2)
    ELSE LET authority == decode_pubkey(Unwrap(payload.authority))
             c3 == c2 \o DecodeCalls(authority)
    IN  IF authority.kind = "format"
        THEN Reject("Invalid authority public key format", c3)
    ELSE IF authority.kind = "length"
        THEN Reject("Invalid authority public key", c3)
    ELSE LET instruction ==
                 mint_to(spl_token_ID, mint.key, destination.key,
                         authority.key, <<>>, Unwrap(payload.amount))
             c4 == c3 \o <<"instruction::mint_to">>
    IN  IF ~instruction.ok
        THEN Reject("Failed to create mint-to instruction", c4)
        ELSE InstructionResponse(spl_token_ID, instruction, c4)

\* ------------------------------------------------------------------------
\* POST /send/sol
\* ------------------------------------------------------------------------

send_solana(payload) ==
    LET has_from     == validate_present(payload.from)
        has_to       == validate_present(payload.to)
        has_lamports == validate_amount(payload.lamports)
    IN  IF has_from = "missing"
        THEN Reject("Missing required field: from", <<>>)
    ELSE IF has_from = "empty"
        THEN Reject("From address cannot be empty", <<>>)
    ELSE IF has_to = "missing"
        THEN Reject("Missing required field: to", <<>>)
    ELSE IF has_to = "empty"
        THEN Reject("To address cannot be empty", <<>>)
    ELSE IF has_lamports = "missing"
        THEN Reject("Missing required field: lamports", <<>>)
    ELSE IF has_lamports = "zero"
        THEN Reject("Amount must be greater than 0", <<>>)
    ELSE LET from == decode_pubkey(Unwrap(payload.from))
             c1   == DecodeCalls(from)
    IN  IF from.kind = "format"
        THEN Reject("Invalid from public key format", c1)
    ELSE IF from.kind = "length"
        THEN Reject("Invalid from public key", c1)
    ELSE LET to == decode_pubkey(Unwrap(payload.to))
             c2 == c1 \o DecodeCalls(to)
    IN  IF to.kind = "format"
        THEN Reject("Invalid to public key format", c2)
    ELSE IF to.kind = "length"
        THEN Reject("Invalid to public key", c2)
    ELSE LET instruction == system_transfer(from.key, to.key,
                                            Unwrap(payload.lamports))
             c3 == c2 \o <<"system_instruction::transfer">>
    IN  InstructionResponse(system_program_ID, instruction, c3)

\* ------------------------------------------------------------------------
\* POST /send/token
\* ------------------------------------------------------------------------

send_token(payload) ==
    LET has_destination == validate_present(payload.destination)
        has_mint        == validate_present(payload.mint)
        has_owner       == validate_present(payload.owner)
        has_amount      == validate_amount(payload.amount)
    IN  IF has_destination = "missing"
        THEN Reject("Missing required field: destination", <<>>)
    ELSE IF has_destination = "empty"
        THEN Reject("Destination address cannot be empty", <<>>)
    ELSE IF has_mint = "missing"
        THEN Reject("Missing required field: mint", <<>>)
    ELSE IF has_mint = "empty"
        THEN Reject("Mint address cannot be empty", <<>>)
    ELSE IF has_owner = "missing"
        THEN Reject("Missing required field: owner", <<>>)
    ELSE IF has_owner = "empty"
        THEN Reject("Owner address cannot be empty", <<>>)
    ELSE IF has_amount = "missing"
        THEN Reject("Missing required field: amount", <<>>)
    ELSE IF has_amount = "zero"
        THEN Reject("Amount must be greater than 0", <<>>)
    ELSE LET destination == decode_pubkey(Unwrap(payload.destination))
             c1 == DecodeCalls(destination)
    IN  IF destination.kind = "format"
        THEN Reject("Invalid destination public key format", c1)
    ELSE IF destination.kind = "length"
        THEN Reject("Invalid destination public key", c1)
    ELSE LET source == decode_pubkey(Unwrap(payload.mint))
             c2 == c1 \o DecodeCalls(source)
    IN  IF source.kind = "format"
        THEN Reject("Invalid source public key format", c2)
    ELSE IF source.kind = "length"
        THEN Reject("Invalid source public key", c2)
    ELSE LET owner == decode_pubkey(Unwrap(payload.owner))
             c3 == c2 \o DecodeCalls(owner)
    IN  IF owner.kind = "format"
        THEN Reject("Invalid owner public key format", c3)
    ELSE IF owner.kind = "length"
        THEN Reject("Invalid owner public key", c3)
    ELSE LET instruction ==
                 token_transfer(spl_token_ID, source.key, destination.key,
                                owner.key, <<>>, Unwrap(payload.amount))
             c4 == c3 \o <<"instruction::transfer">>
    IN  IF ~instruction.ok
        THEN Reject("Failed to create token transfer instruction", c4)
        ELSE InstructionResponse(spl_token_ID, instruction, c4)

\* ------------------------------------------------------------------------
\* POST /message/sign
\* ------------------------------------------------------------------------

\* mutant of validate_input_text: the trimmed text is handed on
validate_input_text_trimmed(input) ==
    IF input = None THEN [ok |-> FALSE, error |-> "Text field is required"]
    ELSE IF IsBlank(Unwrap(input))
    THEN [ok |-> FALSE, error |-> "Text content cannot be empty"]
    ELSE [ok |-> TRUE, value |-> trim(Unwrap(input))]

validate_input_text(input) ==
    IF input = None THEN [ok |-> FALSE, error |-> "Text field is required"]
    ELSE IF IsBlank(Unwrap(input))
    THEN [ok |-> FALSE, error |-> "Text content cannot be empty"]
    ELSE [ok |-> TRUE, value |-> Unwrap(input)]

validate_private_key(key) ==
    IF key = None
    THEN [ok |-> FALSE, error |-> "Private key field is required"]
    ELSE IF IsBlank(Unwrap(key))
    THEN [ok |-> FALSE, error |-> "Private key cannot be empty"]
    ELSE [ok |-> TRUE, value |-> Unwrap(key)]

decode_base58_key(encoded_key) ==
    LET decoded == bs58_decode(encoded_key)
    IN  IF decoded.ok THEN [ok |-> TRUE, value |-> decoded.bytes]
        ELSE [ok |-> FALSE, error |-> "Invalid private key encoding"]

\* mutant of validate_key_length: only longer keys are turned away
validate_key_length_upper_bound(key_bytes) ==
    IF Len(key_bytes) > 64
    THEN [ok |-> FALSE, error |-> "Private key must be 64 bytes long"]
    ELSE [ok |-> TRUE]

validate_key_length(key_bytes) ==
    IF Len(key_bytes) # 64
    THEN [ok |-> FALSE, error |-> "Private key must be 64 bytes long"]
    ELSE [ok |-> TRUE]

create_keypair_from_bytes(raw_bytes) ==
    LET keypair == Keypair_try_from(raw_bytes)
    IN  IF keypair.ok THEN [ok |-> TRUE, value |-> keypair]
        ELSE [ok |-> FALSE,
              error |-> "Cannot create keypair from provided private key"]

build_success_response(signed_data, wallet_pubkey, original_text) ==
    [success |-> TRUE,
     result  |-> [signed_message |-> base64_encode(signed_data),
                  wallet_address |-> wallet_pubkey,
                  original_text  |-> original_text]]

process_message_signing(request_data) ==
    LET text_to_sign == validate_input_text(request_data.text)
    IN  IF ~text_to_sign.ok THEN Reject(text_to_sign.error, <<>>)
    ELSE LET raw_private_key == validate_private_key(request_data.private_key)
    IN  IF ~raw_private_key.ok THEN Reject(raw_private_key.error, <<>>)
    ELSE LET decoded_key_bytes == decode_base58_key(raw_private_key.value)
             c1 == <<"bs58::decode">>
    IN  IF ~decoded_key_bytes.ok THEN Reject(decoded_key_bytes.error, c1)
    ELSE LET key_length == validate_key_length(decoded_key_bytes.value)
    IN  IF ~key_length.ok THEN Reject(key_length.error, c1)
    ELSE LET wallet_keypair == create_keypair_from_bytes(decoded_key_bytes.value)
             c2 == c1 \o <<"Keypair::try_from">>
    IN  IF ~wallet_keypair.ok THEN Reject(wallet_keypair.error, c2)
    ELSE LET message_signature ==
                 ed25519_sign(wallet_keypair.value, as_bytes(text_to_sign.value))
             wallet_address == wallet_keypair.value.public
             encoded_wallet_address == bs58_encode(wallet_address)
    IN  [status |-> OK,
         body   |-> build_success_response(message_signature,
                                           encoded_wallet_address,
                                           text_to_sign.value),
         calls  |-> c2 \o <<"Keypair::sign_message">>]

\* ------------------------------------------------------------------------
\* POST /message/verify
\* ------------------------------------------------------------------------

extract_text_content(text_input) ==
    IF text_input = None
    THEN [ok |-> FALSE, error |-> "Text field is mandatory"]
    ELSE IF IsBlank(Unwrap(text_input))
    THEN [ok |-> FALSE, error |-> "Text content must not be empty"]
    ELSE [ok |-> TRUE, value |-> Unwrap(text_input)]

extract_signature_data(sig_input) ==
    IF sig_input = None
    THEN [ok |-> FALSE, error |-> "Signature field is mandatory"]
    ELSE IF IsBlank(Unwrap(sig_input))
    THEN [ok |-> FALSE, error |-> "Signature data must not be empty"]
    ELSE [ok |-> TRUE, value |-> Unwrap(sig_input)]

extract_wallet_address(addr_input) ==
    IF addr_input = None
    THEN [ok |-> FALSE, error |-> "Wallet address field is mandatory"]
    ELSE IF IsBlank(Unwrap(addr_input))
    THEN [ok |-> FALSE, error |-> "Wallet address must not be empty"]
    ELSE [ok |-> TRUE, value |-> Unwrap(addr_input)]

\* mutant of parse_wallet_address: the decoded bytes are taken as the key
\* whatever their length
parse_wallet_address_any_length(encoded_address) ==
    LET address_bytes == bs58_decode(encoded_address)
    IN  IF ~address_bytes.ok
        THEN [ok |-> FALSE, error |-> "Wallet address encoding is invalid",
              calls |-> <<"bs58::decode">>]
        ELSE [ok |-> TRUE, value |-> address_bytes.bytes,
              calls |-> <<"bs58::decode", "Pubkey::try_from">>]

parse_wallet_address(encoded_address) ==
    LET decoded == decode_pubkey(encoded_address)
    IN  IF decoded.kind = "format"
        THEN [ok |-> FALSE, error |-> "Wallet address encoding is invalid",
              calls |-> DecodeCalls(decoded)]
        ELSE IF decoded.kind = "length"
        THEN [ok |-> FALSE, error |-> "Cannot parse wallet address",
              calls |-> DecodeCalls(decoded)]
        ELSE [ok |-> TRUE, value |-> decoded.key,
              calls |-> DecodeCalls(decoded)]

parse_signature_bytes(encoded_signature) ==
    LET sig_bytes == base64_decode(encoded_signature)
    IN  IF ~sig_bytes.ok
        THEN [ok |-> FALSE, error |-> "Signature encoding is invalid",
              calls |-> <<"base64::decode">>]
        ELSE LET signature == Signature_try_from(sig_bytes.bytes)
             IN  IF ~signature.ok
                 THEN [ok |-> FALSE, error |-> "Cannot parse signature data",
                       calls |-> <<"base64::decode", "Signature::try_from">>]
                 ELSE [ok |-> TRUE, value |-> signature.sig,
                       calls |-> <<"base64::decode", "Signature::try_from">>]

\* mutant of perform_signature_verification: the text is trimmed first
perform_signature_verification_trimmed(signature_obj, wallet_pubkey, original_text) ==
    ed25519_verify(signature_obj, wallet_pubkey, as_bytes(trim(original_text)))

perform_signature_verification(signature_obj, wallet_pubkey, original_text) ==
    ed25519_verify(signature_obj, wallet_pubkey, as_bytes(original_text))

create_verification_response(verification_result, original_text, wallet_addr) ==
    [success |-> TRUE,
     result  |-> [is_verified    |-> verification_result,
                  original_text  |-> original_text,
                  wallet_address |-> wallet_addr]]

authenticate_message_signature(request_payload) ==
    LET text_content == extract_text_content(request_payload.text)
    IN  IF ~text_content.ok THEN Reject(text_content.error, <<>>)
    ELSE LET signature_data == extract_signature_data(request_payload.signed_data)
    IN  IF ~signature_data.ok THEN Reject(signature_data.error, <<>>)
    ELSE LET wallet_addr_str ==
                 extract_wallet_address(request_payload.wallet_address)
    IN  IF ~wallet_addr_str.ok THEN Reject(wallet_addr_str.error, <<>>)
    ELSE LET parsed_wallet_addr == parse_wallet_address(wallet_addr_str.value)
             c1 == parsed_wallet_addr.calls
    IN  IF ~parsed_wallet_addr.ok THEN Reject(parsed_wallet_addr.error, c1)
    ELSE LET parsed_signature == parse_signature_bytes(signature_data.value)
             c2 == c1 \o parsed_signature.calls
    IN  IF ~parsed_signature.ok THEN Reject(parsed_signature.error, c2)
    ELSE LET verification_outcome ==
                 perform_signature_verification(parsed_signature.value,
                                                parsed_wallet_addr.value,
                                                text_content.value)
    IN  [status |-> OK,
         body   |-> create_verification_response(verification_outcome,
                                                 text_content.value,
                                                 wallet_addr_str.value),
         calls  |-> c2 \o <<"Signature::verify">>]

\* ------------------------------------------------------------------------
\* extract::Json<T>, the one argument of the six POST handlers: axum runs the
\* extractor before the body of the handler and answers its rejection itself,
\* in plain text.
\*   MissingJsonContentType  no Content-Type: application/json header
\*   JsonSyntaxError         the body is not JSON
\*   JsonDataError           the JSON is not a value of T (a text or a
\*                           negative number for amount, 256 for decimals)
\* A missing or null field of T is None, an unknown field is ignored.
\* ------------------------------------------------------------------------

UNSUPPORTED_MEDIA_TYPE == 415

UNPROCESSABLE_ENTITY == 422

JsonRejections ==
    {"MissingJsonContentType", "JsonSyntaxError", "JsonDataError"}

JsonRejection(kind) ==
    CASE kind = "MissingJsonContentType" ->
             [status |-> UNSUPPORTED_MEDIA_TYPE,
              body   |-> [text |->
                  "Expected request with Content-Type: application/json"],
              calls  |-> <<>>]
      [] kind = "JsonSyntaxError" ->
             [status |-> BAD_REQUEST,
              body   |-> [text |->
                  "Failed to parse the request body as JSON"],
              calls  |-> <<>>]
      [] kind = "JsonDataError" ->
             [status |-> UNPROCESSABLE_ENTITY,
              body   |-> [text |->
                  "Failed to deserialize the JSON body into the target type"],
              calls  |-> <<>>]

\* a request the extractor accepts carries the payload, the value of T
extract_Json(req) ==
    IF "payload" \in DOMAIN req
    THEN [ok |-> TRUE, payload |-> req.payload]
    ELSE [ok |-> FALSE, rejection |-> JsonRejection(req.rejection)]

\* ------------------------------------------------------------------------
\* keypair.rs
\* ------------------------------------------------------------------------

\* hello(): a line on the standard output and a plain text body (a plain
\* text body is the record with the one field text)
hello ==
    [status |-> OK,
     body   |-> [text |-> "Hello from Axum!"],
     calls  |-> <<"println">>]

\* generate_keypair(): secret is the seed Keypair::new() drew from the
\* operating system's generator; Keypair::to_bytes() is the seed followed by
\* the public key
generate_keypair(secret) ==
    LET pubkey   == ed25519_public(secret)
        to_bytes == secret \o pubkey
    IN  [status |-> OK,
         body   |-> [success |-> TRUE,
                     data    |-> [pubkey |-> bs58_encode(pubkey),
                                  secret |-> bs58_encode(to_bytes)]],
         calls  |-> <<"Keypair::new", "bs58::encode">>]

\* the seeds Keypair::new() may draw
Seeds == { r.secret : r \in Ed25519KeyTable }

\* ------------------------------------------------------------------------
\* The requests a client may send.  Each field ranges over the absent value,
\* malformed values of every kind the handlers tell apart, and a pool of
\* well-formed values; the Num* definitions say how much of each pool is used.
\* ------------------------------------------------------------------------

NumAddrs == 2

NumKeys == 2

NumTexts == 2

Prefix(pool, n) == {pool[i] : i \in 1..(IF n < Len(pool) THEN n ELSE Len(pool))}

EmptyText == <<>>

BlankText == <<" ", " ">>

NotBase58 == <<"n","o","t","-","b","a","s","e","5","8","!">>

NotBase64 == <<"!","!","!","!">>

\* AKnL4NNf3DGWZJS6cPknBuEGnVsV4A4m5tgebLHaRSZ9, 11111111111111111111111111111111, 9hSR6S7WPtxmTojgo6GG3k4yDPecgJY292j7xrsUGWBu

AddressPool ==
    << <<
          "A","K","n","L","4","N","N","f","3","D","G","W","Z","J","S","6",
          "c","P","k","n","B","u","E","G","n","V","s","V","4","A","4","m",
          "5","t","g","e","b","L","H","a","R","S","Z","9" >>,
       <<
          "1","1","1","1","1","1","1","1","1","1","1","1","1","1","1","1",
          "1","1","1","1","1","1","1","1","1","1","1","1","1","1","1","1" >>,
       <<
          "9","h","S","R","6","S","7","W","P","t","x","m","T","o","j","g",
          "o","6","G","G","3","k","4","y","D","P","e","c","g","J","Y","2",
          "9","2","j","7","x","r","s","U","G","W","B","u" >> >>

\* base58 of 31 bytes: 8zUFfLHADcabAoM9YFZYEosLosi2GDmsDuzfcSEkxG

ShortAddress ==
    <<
        "8","z","U","F","f","L","H","A","D","c","a","b","A","o","M","9","Y",
        "F","Z","Y","E","o","s","L","o","s","i","2","G","D","m","s","D","u",
        "z","f","c","S","E","k","x","G" >>

\* the base58 keypairs (secret half then public half) of the seed pool

KeypairPool ==
    << <<
          "2","A","X","D","G","Y","S","E","4","f","2","s","z","7","t","v",
          "M","M","z","y","H","v","U","f","c","o","J","m","x","u","d","v",
          "d","h","B","c","m","i","U","S","o","6","i","u","C","X","a","g",
          "j","U","C","K","E","Q","F","2","1","a","w","Z","n","U","G","x",
          "m","w","D","4","m","9","v","G","X","u","C","3","q","i","e","H",
          "X","J","Q","H","A","c","T" >>,
       <<
          "3","L","3","R","Y","5","s","T","8","K","4","k","y","E","n","q",
          "h","i","z","w","a","q","x","L","E","b","c","Y","v","p","G","r",
          "G","P","N","E","Y","R","w","t","b","C","S","d","S","v","v","M",
          "A","J","a","w","w","E","E","P","E","3","N","h","s","h","F","b",
          "V","U","q","m","v","D","V","7","4","C","t","4","v","o","7","M",
          "E","u","7","y","x","J","X" >>,
       <<
          "4","V","Z","d","o","d","J","g","B","y","6","d","x","M","g","m",
          "4","5","z","u","s","m","R","z","r","P","v","K","t","i","u","m",
          "u","5","Y","r","K","9","R","L","P","J","A","V","b","W","5","q",
          "T","G","H","q","s","Y","e","F","R","8","H","s","F","W","E","h",
          "7","1","p","j","w","J","f","f","S","P","k","m","f","i","c","r",
          "R","v","k","3","p","3","a" >> >>

\* 64 bytes whose public half is the key of another seed

MismatchedKeypair ==
    <<
        "2","A","X","D","G","Y","S","E","4","f","2","s","z","7","t","v","M",
        "M","z","y","H","v","U","f","c","o","J","m","x","u","d","v","d","h",
        "B","c","m","i","U","S","o","6","i","t","a","B","f","i","o","D","3",
        "f","v","6","V","v","W","t","X","k","U","y","k","p","c","m","u","V",
        "e","w","3","t","g","N","T","6","y","m","7","f","3","t","J","8","E",
        "F","D" >>

\* base58 of 63 bytes

ShortKeypair ==
    <<
        "G","J","G","U","5","r","f","k","s","k","v","h","8","T","G","G","3",
        "3","G","2","7","g","M","5","V","A","T","x","G","6","e","X","W","w",
        "y","8","s","B","J","A","z","V","3","2","W","a","U","n","t","n","H",
        "P","J","S","H","V","e","1","Y","R","U","j","c","H","e","Y","P","J",
        "L","B","A","q","q","6","6","y","M","5","v","p","p","S","x","y","W" >>

\* base58 of 65 bytes: the first keypair followed by one more byte
LongKeypair ==
    <<
        "6","9","2","M","9","b","k","L","f","8","s","J","3","7","S","A","U",
        "s","g","s","T","h","3","7","T","1","P","T","T","m","K","y","i","x",
        "M","r","t","N","4","8","r","U","F","w","P","s","y","g","N","T","2",
        "w","U","9","a","s","T","a","o","q","h","h","P","T","B","L","G","F",
        "b","t","N","7","Z","P","M","m","Y","2","o","Z","v","j","o","k","M",
        "R","T","m" >>

TextPool ==
    << <<"h","e","l","l","o">>,
       <<" ","h","e","l","l","o"," ">>,
       <<"h","e","l","l","p">> >>

\* 1, 1000 and u64::MAX
PositiveAmounts ==
    { <<1, 0, 0, 0>>, <<1000, 0, 0, 0>>, <<65535, 65535, 65535, 65535>> }

ValidAddresses == Prefix(AddressPool, NumAddrs)

OptionOf(values) == {None} \cup {Some(v) : v \in values}

AddressInputs ==
    OptionOf({BlankText, NotBase58, ShortAddress} \cup ValidAddresses)

AmountInputs == OptionOf({U64Zero} \cup PositiveAmounts)

DecimalsInputs == OptionOf({0, 9, 255})

Texts == Prefix(TextPool, NumTexts)

TextInputs == OptionOf({BlankText} \cup Texts)

Keypairs == Prefix(KeypairPool, NumKeys)

PrivateKeyInputs ==
    OptionOf({EmptyText, BlankText, NotBase58, ShortKeypair, LongKeypair,
              MismatchedKeypair} \cup Keypairs)

\* the wallet addresses of the keypairs in use
Wallets ==
    {bs58_encode(Keypair_try_from(bs58_decode(k).bytes).public) : k \in Keypairs}

WalletInputs ==
    OptionOf({BlankText, NotBase58, ShortAddress} \cup Wallets)

\* what the signing endpoint hands out for the keypairs and texts in use
GenuineSignatures ==
    { base64_encode(ed25519_sign(Keypair_try_from(bs58_decode(k).bytes),
                                 as_bytes(t))) : k \in Keypairs, t \in Texts }

\* 64 bytes that are nobody's signature, and 63 bytes
ForgedSignature == base64_encode(Repeat(7, 64))

ShortSignature == base64_encode(Repeat(7, 63))

SignatureInputs ==
    OptionOf({BlankText, NotBase64, ShortSignature, ForgedSignature}
                 \cup GenuineSignatures)

CreateTokenRequests ==
    { [endpoint |-> "/token/create",
       payload  |-> [mint_authority |-> a, mint |-> m, decimals |-> d]] :
      a \in AddressInputs, m \in AddressInputs, d \in DecimalsInputs }

MintTokenRequests ==
    { [endpoint |-> "/token/mint",
       payload  |-> [mint |-> m, destination |-> d, authority |-> a,
                     amount |-> n]] :
      m \in AddressInputs, d \in AddressInputs, a \in AddressInputs,
      n \in AmountInputs }

SendSolRequests ==
    { [endpoint |-> "/send/sol",
       payload  |-> [from |-> f, to |-> t, lamports |-> n]] :
      f \in AddressInputs, t \in AddressInputs, n \in AmountInputs }

SendTokenRequests ==
    { [endpoint |-> "/send/token",
       payload  |-> [destination |-> d, mint |-> m, owner |-> o,
                     amount |-> n]] :
      d \in AddressInputs, m \in AddressInputs, o \in AddressInputs,
      n \in AmountInputs }

MessageSignRequests ==
    { [endpoint |-> "/message/sign",
       payload  |-> [text |-> t, private_key |-> k]] :
      t \in TextInputs, k \in PrivateKeyInputs }

SignatureVerificationRequests ==
    { [endpoint |-> "/message/verify",
       payload  |-> [text |-> t, signed_data |-> s, wallet_address |-> w]] :
      t \in TextInputs, s \in SignatureInputs, w \in WalletInputs }

JsonEndpoints ==
    {"/token/create", "/token/mint", "/message/sign", "/message/verify",
     "/send/sol", "/send/token"}

\* bodies the extractor rejects
RejectedRequests ==
    { [endpoint |-> e, rejection |-> k] :
      e \in JsonEndpoints, k \in JsonRejections }

\* GET / and POST /keypair: the handlers take no extractor, nothing of the
\* request is read
HelloRequests == { [endpoint |-> "/"] }

KeypairRequests == { [endpoint |-> "/keypair"] }

Requests ==
    CreateTokenRequests \cup MintTokenRequests \cup SendSolRequests
        \cup SendTokenRequests \cup MessageSignRequests
        \cup SignatureVerificationRequests
        \cup RejectedRequests \cup HelloRequests \cup KeypairRequests

\* ------------------------------------------------------------------------
\* The service: one request at a time is received, handled by the handler
\* its route names, and answered.  The handlers keep nothing between
\* requests.
\* ------------------------------------------------------------------------

VARIABLES request, response, calls, tasks, served

vars == <<request, response, calls, tasks, served>>

\* the tasks the runtime runs the connections on
NumTasks == 2

Tasks == 1..NumTasks

Idle == [stage |-> "idle", request |-> None, response |-> None]

Init ==
    /\ request = None
    /\ response = None
    /\ calls = <<>>
    /\ tasks = [t \in Tasks |-> Idle]
    /\ served = {}

Receive ==
    /\ request = None
    /\ \E r \in Requests : request' = Some(r)
    /\ UNCHANGED <<response, calls, tasks, served>>

\* a request for the route is waiting for its handler
Routed(endpoint) ==
    /\ request # None
    /\ response = None
    /\ Unwrap(request).endpoint = endpoint

\* the handler's outcome becomes the response
Answer(outcome) ==
    /\ response' = Some([status |-> outcome.status, body |-> outcome.body])
    /\ calls' = outcome.calls
    /\ UNCHANGED <<request, tasks, served>>

CreateToken ==
    /\ Routed("/token/create")
    /\ LET extracted == extract_Json(Unwrap(request))
       IN  Answer(IF extracted.ok THEN create_token(extracted.payload)
                  ELSE extracted.rejection)

MintToken ==
    /\ Routed("/token/mint")
    /\ LET extracted == extract_Json(Unwrap(request))
       IN  Answer(IF extracted.ok THEN mint_token(extracted.payload)
                  ELSE extracted.rejection)

SignMessage ==
    /\ Routed("/message/sign")
    /\ LET extracted == extract_Json(Unwrap(request))
       IN  Answer(IF extracted.ok THEN process_message_signing(extracted.payload)
                  ELSE extracted.rejection)

VerifyMessage ==
    /\ Routed("/message/verify")
    /\ LET extracted == extract_Json(Unwrap(request))
       IN  Answer(IF extracted.ok THEN authenticate_message_signature(extracted.payload)
                  ELSE extracted.rejection)

SendSol ==
    /\ Routed("/send/sol")
    /\ LET extracted == extract_Json(Unwrap(request))
       IN  Answer(IF extracted.ok THEN send_solana(extracted.payload)
                  ELSE extracted.rejection)

SendToken ==
    /\ Routed("/send/token")
    /\ LET extracted == extract_Json(Unwrap(request))
       IN  Answer(IF extracted.ok THEN send_token(extracted.payload)
                  ELSE extracted.rejection)

Hello ==
    /\ Routed("/")
    /\ Answer(hello)

GenerateKeypair ==
    /\ Routed("/keypair")
    /\ \E secret \in Seeds : Answer(generate_keypair(secret))

Reply ==
    /\ response # None
    /\ request' = None
    /\ response' = None
    /\ calls' = <<>>
    /\ UNCHANGED <<tasks, served>>

Next ==
    \/ Receive
    \/ CreateToken
    \/ MintToken
    \/ SignMessage
    \/ VerifyMessage
    \/ SendSol
    \/ SendToken
    \/ Hello
    \/ GenerateKeypair
    \/ Reply

Spec == Init /\ [][Next]_vars

\* ------------------------------------------------------------------------
\* The service under load: the runtime runs every connection as a task of
\* its own, the tasks run in parallel, and the router hands each request to
\* the handler of its route.  A handler has its request as its only argument
\* (no State extractor, no static); served is what the clients of the
\* routes that take a Json body have received so far.
\* ------------------------------------------------------------------------

\* the requests the clients send at the same time: one a builder refuses,
\* one to sign, and one for a new keypair
ConcurrentRequests ==
    { [endpoint |-> "/token/mint",
       payload  |-> [mint        |-> Some(AddressPool[1]),
                     destination |-> Some(AddressPool[2]),
                     authority   |-> Some(AddressPool[1]),
                     amount      |-> Some(U64Zero)]],
      [endpoint |-> "/message/sign",
       payload  |-> [text        |-> Some(TextPool[1]),
                     private_key |-> Some(KeypairPool[1])]],
      [endpoint |-> "/keypair"] }

\* the router: the response of the handler of the route; secret is the seed
\* Keypair::new() draws if the route is /keypair
Dispatch(req, secret) ==
    LET outcome ==
            IF req.endpoint = "/" THEN hello
            ELSE IF req.endpoint = "/keypair" THEN generate_keypair(secret)
            ELSE LET extracted == extract_Json(req)
                 IN  IF ~extracted.ok THEN extracted.rejection
                     ELSE CASE req.endpoint = "/token/create" ->
                                   create_token(extracted.payload)
                            [] req.endpoint = "/token/mint" ->
                                   mint_token(extracted.payload)
                            [] req.endpoint = "/message/sign" ->
                                   process_message_signing(extracted.payload)
                            [] req.endpoint = "/message/verify" ->
                                   authenticate_message_signature(
                                       extracted.payload)
                            [] req.endpoint = "/send/sol" ->
                                   send_solana(extracted.payload)
                            [] req.endpoint = "/send/token" ->
                                   send_token(extracted.payload)
    IN  [status |-> outcome.status, body |-> outcome.body]

\* the seeds the handler of the request may draw: generate_keypair alone
\* calls Keypair::new()
DrawnFor(req) == IF req.endpoint = "/keypair" THEN Seeds ELSE {<<>>}

\* a connection's request reaches task t
Accept(t) ==
    /\ tasks[t].stage = "idle"
    /\ \E r \in ConcurrentRequests :
           tasks' = [tasks EXCEPT ![t] = [stage    |-> "accepted",
                                          request  |-> Some(r),
                                          response |-> None]]
    /\ UNCHANGED <<request, response, calls, served>>

\* mutant of Serve: the handler works on a buffer the tasks share, which
\* holds the request of whichever task wrote it last
Serve_from_shared_buffer(t) ==
    /\ tasks[t].stage = "accepted"
    /\ \E u \in Tasks :
           /\ tasks[u].stage # "idle"
           /\ \E secret \in DrawnFor(Unwrap(tasks[u].request)) :
                  tasks' = [tasks EXCEPT
                      ![t].stage = "handled",
                      ![t].response =
                          Some(Dispatch(Unwrap(tasks[u].request), secret))]
    /\ UNCHANGED <<request, response, calls, served>>

\* task t runs the handler on its own request
Serve(t) ==
    /\ tasks[t].stage = "accepted"
    /\ \E secret \in DrawnFor(Unwrap(tasks[t].request)) :
           tasks' = [tasks EXCEPT
               ![t].stage = "handled",
               ![t].response =
                   Some(Dispatch(Unwrap(tasks[t].request), secret))]
    /\ UNCHANGED <<request, response, calls, served>>

\* task t writes the response to its connection and is free again
Respond(t) ==
    /\ tasks[t].stage = "handled"
    /\ served' = served \cup
           { p \in {<<Unwrap(tasks[t].request), Unwrap(tasks[t].response)>>} :
                 p[1].endpoint \in JsonEndpoints }
    /\ tasks' = [tasks EXCEPT ![t] = Idle]
    /\ UNCHANGED <<request, response, calls>>

ConcurrentNext ==
    \/ \E t \in Tasks : Accept(t)
    \/ \E t \in Tasks : Serve(t)
    \/ \E t \in Tasks : Respond(t)

ConcurrentSpec == Init /\ [][ConcurrentNext]_vars

\* ------------------------------------------------------------------------
\* Vocabulary of the properties
\* ------------------------------------------------------------------------

\* the request to the route has its response
Responded(endpoint) ==
    /\ request # None
    /\ response # None
    /\ Unwrap(request).endpoint = endpoint

\* the handler of the route has answered the payload of the request
Answered(endpoint) ==
    /\ Responded(endpoint)
    /\ "payload" \in DOMAIN Unwrap(request)

Payload == Unwrap(request).payload

Status == Unwrap(response).status

Body == Unwrap(response).body

Rejected == Status = BAD_REQUEST /\ Body.success = FALSE

Succeeded == Status = OK /\ Body.success = TRUE

AmountEndpoints == {"/token/mint", "/send/sol", "/send/token"}

\* the amount field of a request to one of the three amount endpoints
AmountOf(endpoint, payload) ==
    IF endpoint = "/send/sol" THEN payload.lamports ELSE payload.amount

\* the address fields, in the order the handler of the route checks them
AddressFields(endpoint) ==
    CASE endpoint = "/token/create"   -> <<"mint_authority", "mint">>
      [] endpoint = "/token/mint"     -> <<"mint", "destination", "authority">>
      [] endpoint = "/send/sol"       -> <<"from", "to">>
      [] endpoint = "/send/token"     -> <<"destination", "mint", "owner">>
      [] endpoint = "/message/verify" -> <<"wallet_address">>
      [] OTHER                        -> <<>>

PresentAndNotBlank(field) == field # None /\ ~IsBlank(Unwrap(field))

\* a text that is the base58 form of exactly 32 bytes
IsAddress(field) ==
    /\ field # None
    /\ bs58_decode(Unwrap(field)).ok
    /\ Len(bs58_decode(Unwrap(field)).bytes) = 32

AllAddressesValid(endpoint, payload) ==
    \A i \in 1..Len(AddressFields(endpoint)) :
        IsAddress(payload[AddressFields(endpoint)[i]])

IsPositive(amount) == amount # None /\ Unwrap(amount) # U64Zero

BuilderCalls ==
    { "instruction::initialize_mint", "instruction::mint_to",
      "instruction::transfer", "system_instruction::transfer" }

BuilderInvoked == \E i \in 1..Len(calls) : calls[i] \in BuilderCalls

\* the bytes of the instruction data of a success response
InstructionData == base64_decode(Body.data.instruction_data).bytes

\* the public key an account entry of the response names
AccountKey(i) == bs58_decode(Body.data.accounts[i].pubkey).bytes

\* the public key an address field of the request names
FieldKey(name) == bs58_decode(Unwrap(Payload[name])).bytes

\* bytes is the 8-byte little-endian form of the u64 amount (16-bit limbs)
IsLittleEndianOf(bytes, amount) ==
    /\ Len(bytes) = 8
    /\ \A i \in 1..8 : bytes[i] \in 0..255
    /\ \A k \in 1..4 : bytes[2 * k - 1] + 256 * bytes[2 * k] = amount[k]

Last8(bytes) == SubSeq(bytes, Len(bytes) - 7, Len(bytes))

\* ------------------------------------------------------------------------
\* C1
\* ------------------------------------------------------------------------

\* C1 as stated: in mint_token, send_solana and send_token a request whose
\* amount is 0 is always rejected with the error "Amount must be greater
\* than 0", and the instruction builder is never invoked for it.
C1_ZeroAmountAlwaysAmountError ==
    \A e \in AmountEndpoints :
        (Answered(e) /\ AmountOf(e, Payload) = Some(U64Zero))
            => /\ Rejected
               /\ Body.error = "Amount must be greater than 0"
               /\ ~BuilderInvoked

\* C1 amended: a request whose amount is 0 is always rejected and the
\* instruction builder is never invoked for it; the error is "Amount must be
\* greater than 0" whenever every address field of the request is present
\* and not blank (otherwise the earlier presence error is reported).
C1_ZeroAmountRejected ==
    \A e \in AmountEndpoints :
        (Answered(e) /\ AmountOf(e, Payload) = Some(U64Zero))
            => /\ Rejected
               /\ ~BuilderInvoked
               /\ (\A i \in 1..Len(AddressFields(e)) :
                       PresentAndNotBlank(Payload[AddressFields(e)[i]]))
                  => Body.error = "Amount must be greater than 0"

C1_Witness ==
    /\ Answered("/send/token")
    /\ Payload.amount = Some(U64Zero)
    /\ \A i \in 1..3 : PresentAndNotBlank(Payload[AddressFields("/send/token")[i]])
    /\ Rejected
    /\ Body.error = "Amount must be greater than 0"

\* ------------------------------------------------------------------------
\* C2
\* ------------------------------------------------------------------------

\* C2: for every positive amount up to u64::MAX and valid 32-byte addresses,
\* mint_token, send_solana and send_token succeed and the instruction data
\* they return ends with the 8-byte little-endian form of the amount.
C2_AmountLittleEndian ==
    \A e \in AmountEndpoints :
        (/\ Answered(e)
         /\ IsPositive(AmountOf(e, Payload))
         /\ AllAddressesValid(e, Payload))
            => /\ Succeeded
               /\ Len(InstructionData) >= 8
               /\ IsLittleEndianOf(Last8(InstructionData),
                                   Unwrap(AmountOf(e, Payload)))

C2_Witness ==
    /\ Answered("/token/mint")
    /\ Payload.amount = Some(<<65535, 65535, 65535, 65535>>)
    /\ Succeeded
    /\ Last8(InstructionData) = <<255, 255, 255, 255, 255, 255, 255, 255>>

\* ------------------------------------------------------------------------
\* C3 .. C6: the shape of the four instructions
\* ------------------------------------------------------------------------

\* the text of the program ids, as the ledger publishes them
SystemProgramText == Repeat("1", 32)

TokenProgramText ==
    << "T","o","k","e","n","k","e","g","Q","f","e","Z","y","i","N","w","A",
       "J","b","N","b","G","K","P","F","X","C","W","u","B","v","f","9","S",
       "s","6","2","3","V","Q","5","D","A" >>

RentSysvarText ==
    << "S","y","s","v","a","r","R","e","n","t" >> \o Repeat("1", 33)

\* account i of the response names the key of the request field, with flags
AccountIs(i, name, signer, writable) ==
    /\ AccountKey(i) = FieldKey(name)
    /\ Body.data.accounts[i].is_signer = signer
    /\ Body.data.accounts[i].is_writable = writable

\* C3: for valid from, to and positive lamports, send_solana returns exactly
\* the accounts [from: signer, writable] and [to: non-signer, writable], the
\* system program id, and data = the opcode tag then the 8-byte
\* little-endian lamports.
C3_SendSolShape ==
    (/\ Answered("/send/sol")
     /\ IsPositive(Payload.lamports)
     /\ AllAddressesValid("/send/sol", Payload))
        => /\ Succeeded
           /\ Len(Body.data.accounts) = 2
           /\ AccountIs(1, "from", TRUE, TRUE)
           /\ AccountIs(2, "to", FALSE, TRUE)
           /\ Body.data.program_id = SystemProgramText
           /\ Len(InstructionData) = 12
           /\ SubSeq(InstructionData, 1, 4) = <<2, 0, 0, 0>>
           /\ IsLittleEndianOf(Last8(InstructionData), Unwrap(Payload.lamports))

C3_Witness ==
    /\ Answered("/send/sol")
    /\ Payload.lamports = Some(<<1000, 0, 0, 0>>)
    /\ Payload.from # Payload.to
    /\ Succeeded
    /\ InstructionData = <<2, 0, 0, 0, 232, 3, 0, 0, 0, 0, 0, 0>>

\* C4: for valid mint, destination, authority and positive amount,
\* mint_token returns exactly the accounts [mint: writable, non-signer],
\* [destination: writable, non-signer], [authority: signer], the token
\* program id, and data = the mint-to tag then the 8-byte little-endian
\* amount, whatever the values of the inputs.
C4_MintTokenShape ==
    (/\ Answered("/token/mint")
     /\ IsPositive(Payload.amount)
     /\ AllAddressesValid("/token/mint", Payload))
        => /\ Succeeded
           /\ Len(Body.data.accounts) = 3
           /\ AccountIs(1, "mint", FALSE, TRUE)
           /\ AccountIs(2, "destination", FALSE, TRUE)
           /\ AccountKey(3) = FieldKey("authority")
           /\ Body.data.accounts[3].is_signer = TRUE
           /\ Body.data.program_id = TokenProgramText
           /\ Len(InstructionData) = 9
           /\ InstructionData[1] = 7
           /\ IsLittleEndianOf(Last8(InstructionData), Unwrap(Payload.amount))

C4_Witness ==
    /\ Answered("/token/mint")
    /\ Succeeded
    /\ Payload.mint # Payload.destination
    /\ Payload.destination = Payload.authority
    /\ Payload.amount = Some(<<1, 0, 0, 0>>)
    /\ InstructionData = <<7, 1, 0, 0, 0, 0, 0, 0, 0>>

\* C5: for valid inputs and positive amount, send_token returns exactly the
\* accounts [source: writable, non-signer], [destination: writable,
\* non-signer], [owner: signer], the token program id, and data = the
\* transfer tag then the 8-byte little-endian amount; source is the key of
\* the request's mint field, destination of destination, owner of owner.
C5_SendTokenShape ==
    (/\ Answered("/send/token")
     /\ IsPositive(Payload.amount)
     /\ AllAddressesValid("/send/token", Payload))
        => /\ Succeeded
           /\ Len(Body.data.accounts) = 3
           /\ AccountIs(1, "mint", FALSE, TRUE)
           /\ AccountIs(2, "destination", FALSE, TRUE)
           /\ AccountKey(3) = FieldKey("owner")
           /\ Body.data.accounts[3].is_signer = TRUE
           /\ Body.data.program_id = TokenProgramText
           /\ Len(InstructionData) = 9
           /\ InstructionData[1] = 3
           /\ IsLittleEndianOf(Last8(InstructionData), Unwrap(Payload.amount))

C5_Witness ==
    /\ Answered("/send/token")
    /\ Succeeded
    /\ Payload.mint # Payload.destination
    /\ Payload.mint = Payload.owner
    /\ AccountKey(1) = FieldKey("mint")
    /\ AccountKey(2) = FieldKey("destination")
    /\ AccountKey(1) # AccountKey(2)

\* C6: for valid mint and mint_authority and every decimals value,
\* create_token returns the accounts [mint: writable, non-signer] then the
\* rent sysvar, and data = opcode byte, decimals byte, the 32-byte mint
\* authority, the presence flag 1, and a 32-byte freeze authority equal to
\* the mint authority.
C6_CreateTokenShape ==
    (/\ Answered("/token/create")
     /\ Payload.decimals # None
     /\ AllAddressesValid("/token/create", Payload))
        => /\ Succeeded
           /\ Len(Body.data.accounts) = 2
           /\ AccountIs(1, "mint", FALSE, TRUE)
           /\ Body.data.accounts[2].pubkey = RentSysvarText
           /\ Len(InstructionData) = 67
           /\ InstructionData[1] = 0
           /\ InstructionData[2] = Unwrap(Payload.decimals)
           /\ SubSeq(InstructionData, 3, 34) = FieldKey("mint_authority")
           /\ InstructionData[35] = 1
           /\ SubSeq(InstructionData, 36, 67) = FieldKey("mint_authority")

C6_Witness ==
    /\ Answered("/token/create")
    /\ Succeeded
    /\ Payload.decimals = Some(255)
    /\ Payload.mint # Payload.mint_authority
    /\ InstructionData[2] = 255
    /\ SubSeq(InstructionData, 36, 67) = FieldKey("mint_authority")

\* ------------------------------------------------------------------------
\* C7
\* ------------------------------------------------------------------------

AddressEndpoints ==
    {"/token/create", "/token/mint", "/send/sol", "/send/token",
     "/message/verify"}

\* what the handler of the route answers to a payload
HandlerOf(endpoint, payload) ==
    CASE endpoint = "/token/create"   -> create_token(payload)
      [] endpoint = "/token/mint"     -> mint_token(payload)
      [] endpoint = "/message/sign"   -> process_message_signing(payload)
      [] endpoint = "/message/verify" -> authenticate_message_signature(payload)
      [] endpoint = "/send/sol"       -> send_solana(payload)
      [] endpoint = "/send/token"     -> send_token(payload)

\* the field is the only thing wrong with the request: with a valid address
\* in its place the request is accepted
OnlyDefect(endpoint, payload, name) ==
    HandlerOf(endpoint, [payload EXCEPT ![name] = Some(AddressPool[1])]).status
        = OK

\* "bad base58", "bad length" or "address"
AddressDefect(text) ==
    IF ~bs58_decode(text).ok THEN "bad base58"
    ELSE IF Len(bs58_decode(text).bytes) # 32 THEN "bad length"
    ELSE "address"

\* a malformed address of the other kind
OtherDefect(defect) ==
    IF defect = "bad base58" THEN ShortAddress ELSE NotBase58

\* C7: in every address field of every endpoint, a text that is not valid
\* base58 and a text that is valid base58 of another length than 32 bytes
\* are both rejected, and with different errors, so that the caller can tell
\* the two apart.
C7_AddressDefectsToldApart ==
    \A e \in AddressEndpoints :
        Answered(e) =>
            \A i \in 1..Len(AddressFields(e)) :
                LET name == AddressFields(e)[i]
                IN  (/\ Payload[name] # None
                     /\ AddressDefect(Unwrap(Payload[name])) # "address"
                     /\ OnlyDefect(e, Payload, name))
                        => /\ Rejected
                           /\ LET other == OtherDefect(
                                      AddressDefect(Unwrap(Payload[name])))
                                  twin == [Payload EXCEPT ![name] = Some(other)]
                              IN  /\ HandlerOf(e, twin).status = BAD_REQUEST
                                  /\ HandlerOf(e, twin).body.error # Body.error

\* ------------------------------------------------------------------------
\* C8
\* ------------------------------------------------------------------------

KeyLengthError == "Private key must be 64 bytes long"

KeypairTouched ==
    \E i \in 1..Len(calls) :
        calls[i] \in {"Keypair::try_from", "Keypair::sign_message"}

\* C8 as stated: in process_message_signing any private_key that
\* base58-decodes to a length other than 64 is rejected with "Private key
\* must be 64 bytes long" before a keypair is built or a signature made; a
\* private_key that is not valid base58 is rejected with a different error.
C8_WrongLengthAlwaysLengthError ==
    (Answered("/message/sign") /\ Payload.private_key # None)
        => LET decoded == bs58_decode(Unwrap(Payload.private_key))
           IN  /\ (decoded.ok /\ Len(decoded.bytes) # 64)
                      => /\ Rejected
                         /\ Body.error = KeyLengthError
                         /\ ~KeypairTouched
               /\ ~decoded.ok
                      => /\ Rejected
                         /\ Body.error # KeyLengthError

\* C8 amended: any private_key that base58-decodes to a length other than 64
\* is rejected before a keypair is built or a signature made, and with
\* "Private key must be 64 bytes long" whenever the text is present and not
\* blank and the key is not the empty string; a private_key that is not
\* valid base58 is rejected with a different error, "Invalid private key
\* encoding" whenever the text is present and not blank and the key is not
\* blank.
C8_WrongLengthRejected ==
    (Answered("/message/sign") /\ Payload.private_key # None)
        => LET key     == Unwrap(Payload.private_key)
               decoded == bs58_decode(key)
               text_ok == PresentAndNotBlank(Payload.text)
           IN  /\ (decoded.ok /\ Len(decoded.bytes) # 64)
                      => /\ Rejected
                         /\ ~KeypairTouched
                         /\ (text_ok /\ key # EmptyText)
                                => Body.error = KeyLengthError
               /\ ~decoded.ok
                      => /\ Rejected
                         /\ ~KeypairTouched
                         /\ Body.error # KeyLengthError
                         /\ (text_ok /\ ~IsBlank(key))
                                => Body.error = "Invalid private key encoding"

C8_Witness ==
    /\ Answered("/message/sign")
    /\ PresentAndNotBlank(Payload.text)
    /\ Payload.private_key = Some(ShortKeypair)
    /\ Len(bs58_decode(ShortKeypair).bytes) = 63
    /\ Rejected
    /\ Body.error = KeyLengthError
    /\ calls = <<"bs58::decode">>

\* ------------------------------------------------------------------------
\* C9
\* ------------------------------------------------------------------------

\* what the verification endpoint answers when it is given the text of the
\* signing request together with the signature and the wallet address of
\* the signing response
VerificationOfSigned ==
    authenticate_message_signature(
        [text           |-> Payload.text,
         signed_data    |-> Some(Body.result.signed_message),
         wallet_address |-> Some(Body.result.wallet_address)])

\* C9: for every text and private key that process_message_signing accepts,
\* the returned signed_message and wallet_address with the same text make
\* authenticate_message_signature answer is_verified = true; a 64-byte key
\* whose public half is not derived from its seed half is either rejected at
\* signing or satisfies this too.
C9_SignThenVerify ==
    (Answered("/message/sign") /\ Succeeded)
        => /\ VerificationOfSigned.status = OK
           /\ VerificationOfSigned.body.success = TRUE
           /\ VerificationOfSigned.body.result.is_verified = TRUE

C9_Witness ==
    /\ Answered("/message/sign")
    /\ Succeeded
    /\ Payload.text = Some(TextPool[2])
    /\ Body.result.original_text = TextPool[2]
    /\ Len(base64_decode(Body.result.signed_message).bytes) = 64
    /\ VerificationOfSigned.body.result.is_verified = TRUE

\* ------------------------------------------------------------------------
\* C10
\* ------------------------------------------------------------------------

\* the (text, signature, wallet address) triples the signing endpoint hands
\* out for the texts and keypairs in use
SignedTriples ==
    { << signed.body.result.original_text,
         signed.body.result.signed_message,
         signed.body.result.wallet_address >> :
      signed \in { process_message_signing(
                       [text |-> Some(t), private_key |-> Some(k)]) :
                   t \in Texts, k \in Keypairs } }

IsSignature(field) ==
    /\ field # None
    /\ base64_decode(Unwrap(field)).ok
    /\ Len(base64_decode(Unwrap(field)).bytes) = 64

\* C10: in authenticate_message_signature, whenever the text is not blank,
\* the wallet address decodes to 32 bytes and the signature to 64 bytes, the
\* answer is a success carrying a boolean is_verified; a signature that does
\* not match the text or the public key gives is_verified = false, never an
\* error.
C10_MismatchIsFalseNotError ==
    (/\ Answered("/message/verify")
     /\ PresentAndNotBlank(Payload.text)
     /\ IsAddress(Payload.wallet_address)
     /\ IsSignature(Payload.signed_data))
        => /\ Succeeded
           /\ Body.result.is_verified \in BOOLEAN
           /\ << Unwrap(Payload.text), Unwrap(Payload.signed_data),
                 Unwrap(Payload.wallet_address) >> \notin SignedTriples
                  => Body.result.is_verified = FALSE

C10_Witness ==
    /\ Answered("/message/verify")
    /\ Payload.signed_data # None
    /\ Unwrap(Payload.signed_data) \in GenuineSignatures
    /\ IsAddress(Payload.wallet_address)
    /\ PresentAndNotBlank(Payload.text)
    /\ << Unwrap(Payload.text), Unwrap(Payload.signed_data),
          Unwrap(Payload.wallet_address) >> \notin SignedTriples
    /\ Succeeded
    /\ Body.result.is_verified = FALSE

\* ------------------------------------------------------------------------
\* C11
\* ------------------------------------------------------------------------

VerificationReached ==
    \E i \in 1..Len(calls) : calls[i] = "Signature::verify"

\* C11: in authenticate_message_signature, a wallet address that does not
\* decode to exactly 32 bytes or a signature that does not base64-decode to
\* exactly 64 bytes is answered with an error, Signature::verify is not
\* reached and the response carries no is_verified value.
C11_MalformedNeverVerified ==
    (/\ Answered("/message/verify")
     /\ \/ ~IsAddress(Payload.wallet_address)
        \/ ~IsSignature(Payload.signed_data))
        => /\ Rejected
           /\ DOMAIN Body = {"success", "error"}
           /\ ~VerificationReached

C11_Witness ==
    /\ Answered("/message/verify")
    /\ PresentAndNotBlank(Payload.text)
    /\ IsAddress(Payload.wallet_address)
    /\ Payload.signed_data = Some(ShortSignature)
    /\ base64_decode(ShortSignature).ok
    /\ Len(base64_decode(ShortSignature).bytes) = 63
    /\ Rejected
    /\ Body.error = "Cannot parse signature data"
    /\ calls = << "bs58::decode", "Pubkey::try_from",
                  "base64::decode", "Signature::try_from" >>

\* ------------------------------------------------------------------------
\* C12
\* ------------------------------------------------------------------------

\* the texts a response carries besides its fixed messages
ResponseTexts ==
    LET e == Unwrap(request).endpoint
    IN  IF e = "/" \/ Status # OK THEN {}
        ELSE IF e = "/keypair" THEN {Body.data.pubkey, Body.data.secret}
        ELSE IF e = "/message/sign"
        THEN {Body.result.signed_message, Body.result.wallet_address}
        ELSE IF e = "/message/verify" THEN {Body.result.wallet_address}
        ELSE {Body.data.program_id, Body.data.instruction_data}
                 \cup { Body.data.accounts[i].pubkey :
                            i \in 1..Len(Body.data.accounts) }

\* the base58 form of a keypair's 64 bytes: a seed followed by its public key
IsSerializedPrivateKey(text) ==
    LET decoded == bs58_decode(text)
    IN  /\ decoded.ok
        /\ Len(decoded.bytes) = KEYPAIR_LENGTH
        /\ SubSeq(decoded.bytes, 1, SECRET_KEY_LENGTH) \in Seeds

\* C12: no response of any endpoint contains a serialized private key;
\* private-key bytes are an input of signing only and are never encoded back
\* into an output.
C12_NoPrivateKeyInResponse ==
    (request # None /\ response # None)
        => \A text \in ResponseTexts : ~IsSerializedPrivateKey(text)

\* ------------------------------------------------------------------------
\* C13
\* ------------------------------------------------------------------------

\* every validation and decoding step of the handler passes on the payload
StepsPass(endpoint, payload) ==
    CASE endpoint = "/token/create" ->
             /\ AllAddressesValid(endpoint, payload)
             /\ payload.decimals # None
      [] endpoint \in AmountEndpoints ->
             /\ AllAddressesValid(endpoint, payload)
             /\ IsPositive(AmountOf(endpoint, payload))
      [] endpoint = "/message/sign" ->
             /\ PresentAndNotBlank(payload.text)
             /\ payload.private_key # None
             /\ bs58_decode(Unwrap(payload.private_key)).ok
             /\ Len(bs58_decode(Unwrap(payload.private_key)).bytes) = 64
             /\ Keypair_try_from(
                    bs58_decode(Unwrap(payload.private_key)).bytes).ok
      [] endpoint = "/message/verify" ->
             /\ PresentAndNotBlank(payload.text)
             /\ IsAddress(payload.wallet_address)
             /\ IsSignature(payload.signed_data)

\* the field of a success body that holds the result
ResultField(endpoint) ==
    IF endpoint \in {"/message/sign", "/message/verify"} THEN "result"
    ELSE "data"

SuccessOutcome(endpoint) ==
    /\ Status = OK
    /\ DOMAIN Body = {"success", ResultField(endpoint)}
    /\ Body.success = TRUE

FailureOutcome ==
    /\ Status = BAD_REQUEST
    /\ DOMAIN Body = {"success", "error"}
    /\ Body.success = FALSE

WorkDone ==
    \/ BuilderInvoked
    \/ VerificationReached
    \/ \E i \in 1..Len(calls) : calls[i] = "Keypair::sign_message"

\* C13 as stated: every request to a builder, signing or verification
\* endpoint ends either in a success response with the result payload, or in
\* a 400 response of the form {success: false, error: message} that carries
\* no instruction, signature or verification data; a success response is
\* never produced after a validation or decoding step has failed.
C13_EveryRequestTwoOutcomes ==
    \A e \in JsonEndpoints :
        Responded(e)
            => \/ SuccessOutcome(e) /\ StepsPass(e, Payload)
               \/ FailureOutcome

\* C13 amended: every request to a builder, signing or verification
\* endpoint whose body the Json extractor accepts ends either in a success
\* response with the result payload, and then every validation and decoding
\* step has passed, or in a 400 response of the form {success: false, error:
\* message} that carries nothing else, and then a step has failed and no
\* instruction was built, nothing signed and nothing verified.
C13_ExtractedRequestTwoOutcomes ==
    \A e \in JsonEndpoints :
        Answered(e)
            => IF StepsPass(e, Payload)
               THEN SuccessOutcome(e) /\ WorkDone
               ELSE FailureOutcome /\ ~WorkDone

C13_Witness ==
    /\ Answered("/send/sol")
    /\ IsAddress(Payload.from)
    /\ Payload.to = Some(ShortAddress)
    /\ IsPositive(Payload.lamports)
    /\ FailureOutcome
    /\ Body.error = "Invalid to public key"
    /\ ~WorkDone

\* ------------------------------------------------------------------------
\* C14
\* ------------------------------------------------------------------------

\* the (request, response) pairs there are: those the clients have received
\* and those of the tasks whose handler has returned
Exchanges ==
    served \cup { <<Unwrap(tasks[t].request), Unwrap(tasks[t].response)>> :
                   t \in {u \in Tasks : tasks[u].stage = "handled"} }

BuilderEndpoints == {"/token/create"} \cup AmountEndpoints

\* the address fields whose key is an account of the instruction, each with
\* the position of that account
AccountFields(endpoint) ==
    CASE endpoint = "/token/create" -> { <<"mint", 1>> }
      [] endpoint = "/token/mint" ->
             { <<"mint", 1>>, <<"destination", 2>>, <<"authority", 3>> }
      [] endpoint = "/send/sol" -> { <<"from", 1>>, <<"to", 2>> }
      [] endpoint = "/send/token" ->
             { <<"mint", 1>>, <<"destination", 2>>, <<"owner", 3>> }

\* C15: in every builder endpoint, the pubkey text of the account of an
\* accepted address field is exactly the text of the field, and two fields
\* with different accepted texts never give the same pubkey text.
C15_AddressRoundTrip ==
    \A e \in BuilderEndpoints :
        (Answered(e) /\ Succeeded)
            => /\ \A f \in AccountFields(e) :
                      Body.data.accounts[f[2]].pubkey = Unwrap(Payload[f[1]])
               /\ \A f \in AccountFields(e), g \in AccountFields(e) :
                      Payload[f[1]] # Payload[g[1]]
                          => Body.data.accounts[f[2]].pubkey
                                 # Body.data.accounts[g[2]].pubkey

\* an address with leading zero bytes and another one, both returned as
\* they came
C15_Witness ==
    /\ Answered("/send/sol")
    /\ Succeeded
    /\ Payload.from = Some(AddressPool[2])
    /\ AddressPool[2][1] = "1"
    /\ Payload.to = Some(AddressPool[1])
    /\ Body.data.accounts[1].pubkey = AddressPool[2]
    /\ Body.data.accounts[2].pubkey = AddressPool[1]

\* ------------------------------------------------------------------------
\* C16
\* ------------------------------------------------------------------------

\* the signature of a signing response is one of exactly these bytes under
\* the wallet address of the response
SignatureIsOver(bytes) ==
    ed25519_verify(base64_decode(Body.result.signed_message).bytes,
                   bs58_decode(Body.result.wallet_address).bytes,
                   bytes)

\* C16: process_message_signing signs exactly the bytes of the text of the
\* request, surrounding whitespace included, and returns the text character
\* for character as original_text; authenticate_message_signature checks
\* the signature against exactly the text of its request and returns that
\* text unchanged.
C16_TextSignedAsIs ==
    /\ (Answered("/message/sign") /\ Succeeded)
           => /\ Body.result.original_text = Unwrap(Payload.text)
              /\ SignatureIsOver(as_bytes(Unwrap(Payload.text)))
              /\ trim(Unwrap(Payload.text)) # Unwrap(Payload.text)
                     => ~SignatureIsOver(as_bytes(trim(Unwrap(Payload.text))))
    /\ (Answered("/message/verify") /\ Succeeded)
           => /\ Body.result.original_text = Unwrap(Payload.text)
              /\ Body.result.is_verified
                     => << Unwrap(Payload.text), Unwrap(Payload.signed_data),
                           Unwrap(Payload.wallet_address) >> \in SignedTriples

\* a text with a leading and a trailing space is signed with them
C16_Witness ==
    /\ Answered("/message/sign")
    /\ Succeeded
    /\ Payload.text = Some(TextPool[2])
    /\ TextPool[2][1] = " "
    /\ trim(TextPool[2]) = TextPool[1]
    /\ Body.result.original_text = TextPool[2]
    /\ SignatureIsOver(as_bytes(TextPool[2]))
    /\ ~SignatureIsOver(as_bytes(TextPool[1]))

\* ------------------------------------------------------------------------
\* C17
\* ------------------------------------------------------------------------

\* the errors of the address fields, in the order of AddressFields
FieldErrors(endpoint) ==
    CASE endpoint = "/token/mint" ->
             << [missing |-> "Missing required field: mint",
                 empty   |-> "Mint address cannot be empty",
                 format  |-> "Invalid mint public key format",
                 length  |-> "Invalid mint public key"],
                [missing |-> "Missing required field: destination",
                 empty   |-> "Destination address cannot be empty",
                 format  |-> "Invalid destination public key format",
                 length  |-> "Invalid destination public key"],
                [missing |-> "Missing required field: authority",
                 empty   |-> "Authority address cannot be empty",
                 format  |-> "Invalid authority public key format",
                 length  |-> "Invalid authority public key"] >>
      [] endpoint = "/send/sol" ->
             << [missing |-> "Missing required field: from",
                 empty   |-> "From address cannot be empty",
                 format  |-> "Invalid from public key format",
                 length  |-> "Invalid from public key"],
                [missing |-> "Missing required field: to",
                 empty   |-> "To address cannot be empty",
                 format  |-> "Invalid to public key format",
                 length  |-> "Invalid to public key"] >>
      [] endpoint = "/send/token" ->
             << [missing |-> "Missing required field: destination",
                 empty   |-> "Destination address cannot be empty",
                 format  |-> "Invalid destination public key format",
                 length  |-> "Invalid destination public key"],
                [missing |-> "Missing required field: mint",
                 empty   |-> "Mint address cannot be empty",
                 format  |-> "Invalid source public key format",
                 length  |-> "Invalid source public key"],
                [missing |-> "Missing required field: owner",
                 empty   |-> "Owner address cannot be empty",
                 format  |-> "Invalid owner public key format",
                 length  |-> "Invalid owner public key"] >>

AmountMissing(endpoint) ==
    IF endpoint = "/send/sol" THEN "Missing required field: lamports"
    ELSE "Missing required field: amount"

Least(S) == CHOOSE i \in S : \A j \in S : i <= j

\* the earliest defect of the payload in the order: presence of every
\* address field, the amount, decoding of every address field; error is
\* its message ("" if there is no defect), decodes the number of addresses
\* the handler has to decode to find it
EarliestDefect(endpoint, payload) ==
    LET fields == AddressFields(endpoint)
        errors == FieldErrors(endpoint)
        absent == {i \in 1..Len(fields) :
                      ~PresentAndNotBlank(payload[fields[i]])}
        broken == {i \in 1..Len(fields) : ~IsAddress(payload[fields[i]])}
        amount == AmountOf(endpoint, payload)
    IN  IF absent # {}
        THEN [error   |-> IF payload[fields[Least(absent)]] = None
                          THEN errors[Least(absent)].missing
                          ELSE errors[Least(absent)].empty,
              decodes |-> 0]
        ELSE IF amount = None
        THEN [error |-> AmountMissing(endpoint), decodes |-> 0]
        ELSE IF amount = Some(U64Zero)
        THEN [error |-> "Amount must be greater than 0", decodes |-> 0]
        ELSE IF broken # {}
        THEN [error   |-> IF bs58_decode(
                                 Unwrap(payload[fields[Least(broken)]])).ok
                          THEN errors[Least(broken)].length
                          ELSE errors[Least(broken)].format,
              decodes |-> Least(broken)]
        ELSE [error |-> "", decodes |-> Len(fields)]

Decodes == Cardinality({i \in 1..Len(calls) : calls[i] = "bs58::decode"})

\* C17: mint_token, send_solana and send_token check the presence of every
\* address field and then the amount, in the order of the handler, before
\* any address is decoded, and stop at the first failing step: the response
\* reports the earliest defect only, an amount of 0 with a malformed
\* address reports the amount error, and a missing field is reported before
\* any malformed address.
C17_EarliestDefectReported ==
    \A e \in AmountEndpoints :
        Answered(e)
            => LET defect == EarliestDefect(e, Payload)
               IN  /\ Decodes = defect.decodes
                   /\ IF defect.error = "" THEN Succeeded
                      ELSE Rejected /\ Body.error = defect.error

\* amount 0 with two malformed addresses: the amount error, nothing decoded
C17_Witness ==
    /\ Answered("/token/mint")
    /\ Payload.mint = Some(NotBase58)
    /\ Payload.destination = Some(ShortAddress)
    /\ IsAddress(Payload.authority)
    /\ Payload.amount = Some(U64Zero)
    /\ Rejected
    /\ Body.error = "Amount must be greater than 0"
    /\ calls = <<>>

====
